---- MODULE Spec2Model ----
(***************************************************************************)
(* Hidden maze game: the maze generator (src/maze.js, class Maze), the     *)
(* view system (src/view.js, class ViewSystem) and the game core           *)
(* (src/game.js, class Game) as state machines.                            *)
(*                                                                         *)
(* Objects are records whose fields carry the names of the source.  Every  *)
(* method is an operator from the object before the call to the object     *)
(* (or the set of possible objects) after it; the actions apply these      *)
(* operators to the state variables.  Cells are pairs <<x, y>>; the cell   *)
(* key `${x},${y}` of the source is modelled by getCellKey/parseCellKey.   *)
(***************************************************************************)
EXTENDS Integers, Sequences, FiniteSets, TLC

VARIABLES
    maze,   \* a Maze instance used on its own (SpecMaze, SpecCanMove)
    game,   \* a Game instance with its maze, player and viewSystem (Spec, SpecWalk)
    call    \* the last call made: its name, arguments and outcome

vars == <<maze, game, call>>

(***************************************************************************)
(* Bounds of the model.                                                    *)
(***************************************************************************)
\* Widths and heights of the mazes built on their own.
Sizes == {2, 3}
\* Coordinates queried from outside go this far beyond the grid.
Margin == 2
\* Fixed levels 1..MaxLevel are generated.
MaxLevel == 3
\* Math.random() returns one of k / RandomGrain, k in 0..RandomGrain-1.
RandomGrain == 4
\* Sizes of the mazes of the games that are played freely (Spec), and of
\* those whose solution path is walked (SpecWalk).
GameSizes == {2}
WalkSizes == {2, 3}
\* Date.now() returns one of MaxTime instants.
MaxTime == 1
\* movePlayer is called while fewer than MaxMoves moves were made.
MaxMoves == 4
\* In the games that are restarted (SpecRestart) movePlayer is called while
\* fewer than MaxRestartMoves moves were made.
MaxRestartMoves == 1
\* The games whose view system is driven (SpecView): the size of their
\* mazes, the start, the end and the lengths of the solution path of these
\* mazes, the instants Date.now() returns, and the number of calls made.
ViewSizes == {3}
ViewStart == <<0, 0>>
ViewEnd == <<2, 2>>
ViewPathLengths == {7, 9}
ViewTimes == {1000}
MaxViewCalls == 2

(***************************************************************************)
(* The random source.  Math.random is either the ambient one, which may    *)
(* return any value, or the seeded one installed by generateFixedLevel.    *)
(***************************************************************************)
LcgMultiplier == 9301
LcgIncrement == 49297
LcgModulus == 233280
LevelSeedFactor == 12345

AmbientRandom == [seeded |-> FALSE, seedValue |-> 0, grain |-> RandomGrain]

seededRandom(seed) == [seeded |-> TRUE, seedValue |-> seed, grain |-> 0]

\* Math.floor(Math.random() * n): the set of possible <<index, source after>>.
randomIndex(rng, n) ==
    IF rng.seeded
    THEN LET s == (rng.seedValue * LcgMultiplier + LcgIncrement) % LcgModulus
         IN  { <<(s * n) \div LcgModulus, [rng EXCEPT !.seedValue = s]>> }
    ELSE { <<(k * n) \div rng.grain, rng>> : k \in 0 .. rng.grain - 1 }

(***************************************************************************)
(* Maze (src/maze.js).                                                     *)
(***************************************************************************)
Cell(x, y) == <<x, y>>

inGrid(m, x, y) == x >= 0 /\ x < m.width /\ y >= 0 /\ y < m.height

GridCells(m) == (0 .. m.width - 1) \X (0 .. m.height - 1)

\* setBoundaryWalls: the four loops write true on the outer edges.
setBoundaryWalls(m) ==
    [m EXCEPT
        !.walls.horizontal =
            [y \in DOMAIN @ |->
                [x \in DOMAIN @[y] |->
                    IF y = 0 \/ y = m.height THEN TRUE ELSE @[y][x]]],
        !.walls.vertical =
            [y \in DOMAIN @ |->
                [x \in DOMAIN @[y] |->
                    IF x = 0 \/ x = m.width THEN TRUE ELSE @[y][x]]]]

\* Maze.init: all cells unvisited, every edge walled, then the boundary.
Maze_init(m) ==
    setBoundaryWalls(
        [m EXCEPT
            !.cells = [y \in 0 .. m.height - 1 |-> [x \in 0 .. m.width - 1 |-> FALSE]],
            !.walls = [horizontal |->
                           [y \in 0 .. m.height |-> [x \in 0 .. m.width - 1 |-> TRUE]],
                       vertical |->
                           [y \in 0 .. m.height - 1 |-> [x \in 0 .. m.width |-> TRUE]]]])

\* constructor(width, height)
Maze(width, height) ==
    Maze_init([width |-> width, height |-> height,
          cells |-> <<>>, walls |-> [horizontal |-> <<>>, vertical |-> <<>>],
          start |-> Cell(0, 0), end |-> Cell(width - 1, height - 1),
          path |-> <<>>])

\* The four directions in the order of the source: up, right, down, left.
directions ==
    << [dx |-> 0, dy |-> -1, direction |-> "up"],
       [dx |-> 1, dy |-> 0, direction |-> "right"],
       [dx |-> 0, dy |-> 1, direction |-> "down"],
       [dx |-> -1, dy |-> 0, direction |-> "left"] >>

\* getUnvisitedNeighbors: in-grid neighbours not yet marked, in direction order.
getUnvisitedNeighbors(m, x, y) ==
    LET pick[i \in 0 .. 4] ==
            IF i = 0 THEN <<>>
            ELSE LET dir == directions[i]
                     nx == x + dir.dx
                     ny == y + dir.dy
                 IN  IF inGrid(m, nx, ny) /\ ~m.cells[ny][nx]
                     THEN Append(pick[i - 1],
                                 [x |-> nx, y |-> ny, direction |-> dir.direction])
                     ELSE pick[i - 1]
    IN  pick[4]

\* A removeWall whose 'left' case clears the wall on the right.
removeWallLeftAsRight(m, x, y, direction) ==
    CASE direction = "up"    -> [m EXCEPT !.walls.horizontal[y][x] = FALSE]
      [] direction = "right" -> [m EXCEPT !.walls.vertical[y][x + 1] = FALSE]
      [] direction = "down"  -> [m EXCEPT !.walls.horizontal[y + 1][x] = FALSE]
      [] direction = "left"  -> [m EXCEPT !.walls.vertical[y][x + 1] = FALSE]
      [] OTHER -> m

\* A removeWall that clears, for 'up', the entry below the cell.
removeWallUpAsDown(m, x, y, direction) ==
    CASE direction = "up"    -> [m EXCEPT !.walls.horizontal[y + 1][x] = FALSE]
      [] direction = "right" -> [m EXCEPT !.walls.vertical[y][x + 1] = FALSE]
      [] direction = "down"  -> [m EXCEPT !.walls.horizontal[y + 1][x] = FALSE]
      [] direction = "left"  -> [m EXCEPT !.walls.vertical[y][x] = FALSE]
      [] OTHER -> m

\* removeWall: clears the one wall entry on the side `direction` of (x, y).
removeWall(m, x, y, direction) ==
    CASE direction = "up"    -> [m EXCEPT !.walls.horizontal[y][x] = FALSE]
      [] direction = "right" -> [m EXCEPT !.walls.vertical[y][x + 1] = FALSE]
      [] direction = "down"  -> [m EXCEPT !.walls.horizontal[y + 1][x] = FALSE]
      [] direction = "left"  -> [m EXCEPT !.walls.vertical[y][x] = FALSE]
      [] OTHER -> m

\* An array read arr[row][col] as JavaScript makes it: reading a column of a
\* missing row throws a TypeError, a missing column reads as undefined.
wallRead(arr, row, col) ==
    IF row \notin DOMAIN arr THEN "TypeError"
    ELSE IF col \notin DOMAIN arr[row] THEN "undefined"
    ELSE IF arr[row][col] THEN "true" ELSE "false"

\* `return !walls[..][..]` on such a read.
notWall(read) ==
    IF read = "TypeError" THEN [threw |-> TRUE, value |-> FALSE]
    ELSE [threw |-> FALSE, value |-> read \in {"false", "undefined"}]

\* A canMove that looks one column too far to the left.
canMoveCallLeftOff(m, x, y, dx, dy) ==
    IF dx = 1 THEN notWall(wallRead(m.walls.vertical, y, x + 1))
    ELSE IF dx = -1 THEN notWall(wallRead(m.walls.vertical, y, x - 1))
    ELSE IF dy = 1 THEN notWall(wallRead(m.walls.horizontal, y + 1, x))
    ELSE IF dy = -1 THEN notWall(wallRead(m.walls.horizontal, y, x))
    ELSE [threw |-> FALSE, value |-> FALSE]

\* canMove as called with any integers: what it returns, or that it throws.
canMoveCall(m, x, y, dx, dy) ==
    IF dx = 1 THEN notWall(wallRead(m.walls.vertical, y, x + 1))
    ELSE IF dx = -1 THEN notWall(wallRead(m.walls.vertical, y, x))
    ELSE IF dy = 1 THEN notWall(wallRead(m.walls.horizontal, y + 1, x))
    ELSE IF dy = -1 THEN notWall(wallRead(m.walls.horizontal, y, x))
    ELSE [threw |-> FALSE, value |-> FALSE]

\* canMove where the caller has made sure it cannot throw.
canMove(m, x, y, dx, dy) == canMoveCall(m, x, y, dx, dy).value

(***************************************************************************)
(* Breadth-first searches of the maze.                                     *)
(***************************************************************************)
null == <<>>

\* A for-loop over the directions that leaves out the last one, left.
RECURSIVE expandWithoutLeft(_, _, _, _)
expandWithoutLeft(m, current, i, s) ==
    IF i > 3 THEN s
    ELSE LET dir == directions[i]
             nx == current[1] + dir.dx
             ny == current[2] + dir.dy
         IN  IF inGrid(m, nx, ny)
                /\ canMove(m, current[1], current[2], dir.dx, dir.dy)
                /\ Cell(nx, ny) \notin s.visited
             THEN expandWithoutLeft(m, current, i + 1,
                         [queue |-> Append(s.queue, Cell(nx, ny)),
                          visited |-> s.visited \cup {Cell(nx, ny)},
                          parent |-> [s.parent EXCEPT ![Cell(nx, ny)] = current]])
             ELSE expandWithoutLeft(m, current, i + 1, s)

\* The for-loop over the directions inside both searches, from direction i on:
\* every open, in-grid, unvisited neighbour of `current` is marked, given
\* `current` as parent and queued.
RECURSIVE expand(_, _, _, _)
expand(m, current, i, s) ==
    IF i > 4 THEN s
    ELSE LET dir == directions[i]
             nx == current[1] + dir.dx
             ny == current[2] + dir.dy
         IN  IF inGrid(m, nx, ny)
                /\ canMove(m, current[1], current[2], dir.dx, dir.dy)
                /\ Cell(nx, ny) \notin s.visited
             THEN expand(m, current, i + 1,
                         [queue |-> Append(s.queue, Cell(nx, ny)),
                          visited |-> s.visited \cup {Cell(nx, ny)},
                          parent |-> [s.parent EXCEPT ![Cell(nx, ny)] = current]])
             ELSE expand(m, current, i + 1, s)

\* The state both searches start from.
searchStart(m) ==
    [queue |-> <<m.start>>, visited |-> {m.start},
     parent |-> [c \in GridCells(m) |-> null]]

\* createPathToEnd: carves from start towards end, columns first.
RECURSIVE createPathFrom(_, _, _)
createPathFrom(m, x, y) ==
    IF x = m.end[1] /\ y = m.end[2] THEN m
    ELSE IF x < m.end[1]
         THEN createPathFrom([m EXCEPT !.walls.vertical[y][x + 1] = FALSE,
                                       !.cells[y][x + 1] = TRUE], x + 1, y)
    ELSE IF x > m.end[1]
         THEN createPathFrom([m EXCEPT !.walls.vertical[y][x] = FALSE,
                                       !.cells[y][x - 1] = TRUE], x - 1, y)
    ELSE IF y < m.end[2]
         THEN createPathFrom([m EXCEPT !.walls.horizontal[y + 1][x] = FALSE,
                                       !.cells[y + 1][x] = TRUE], x, y + 1)
    ELSE createPathFrom([m EXCEPT !.walls.horizontal[y][x] = FALSE,
                                  !.cells[y - 1][x] = TRUE], x, y - 1)

createPathToEnd(m) == createPathFrom(m, m.start[1], m.start[2])

\* An ensurePathExists that carves the path to end without searching first.
ensurePathExistsWithoutSearch(m) == createPathToEnd(m)

\* ensurePathExists: returns as soon as end leaves the queue, and carves a
\* path when the queue runs empty first.
RECURSIVE ensureSearch(_, _)
ensureSearch(m, s) ==
    IF s.queue = <<>> THEN createPathToEnd(m)
    ELSE LET current == Head(s.queue)
         IN  IF current = m.end THEN m
             ELSE ensureSearch(m, expand(m, current, 1,
                                         [s EXCEPT !.queue = Tail(s.queue)]))

ensurePathExists(m) == ensureSearch(m, searchStart(m))

\* A buildPath that stops at the cell without parent instead of after it.
RECURSIVE buildPathWithoutStart(_, _)
buildPathWithoutStart(parent, end) ==
    IF parent[end] = null THEN <<>>
    ELSE Append(buildPathWithoutStart(parent, parent[end]), end)

\* buildPath: follows the parents back from `end`, prepending each cell.
RECURSIVE buildPath(_, _)
buildPath(parent, end) ==
    IF end = null THEN <<>>
    ELSE Append(buildPath(parent, parent[end]), end)

\* calculatePath: the same search with parents; the empty path when end is
\* never dequeued.
RECURSIVE pathSearch(_, _)
pathSearch(m, s) ==
    IF s.queue = <<>> THEN [m EXCEPT !.path = <<>>]
    ELSE LET current == Head(s.queue)
         IN  IF current = m.end
             THEN [m EXCEPT !.path = buildPath(s.parent, current)]
             ELSE pathSearch(m, expand(m, current, 1,
                                       [s EXCEPT !.queue = Tail(s.queue)]))

calculatePath(m) == pathSearch(m, searchStart(m))

(***************************************************************************)
(* Maze.generate.                                                          *)
(***************************************************************************)
\* A single draw of end, kept whether or not it differs from start.
chooseEndOnce(m, rng) ==
    UNION { { <<Cell(ex[1], ey[1]), ey[2]>> : ey \in randomIndex(ex[2], m.height) }
            : ex \in randomIndex(rng, m.width) }

\* The do-while that draws end until it differs from start: every
\* <<end, source after>> the loop can exit with.  The ambient source can
\* repeat a rejected draw any number of times and then exits with any
\* accepted one; the seeded source goes on from its next value.
RECURSIVE chooseEnd(_, _)
chooseEnd(m, rng) ==
    UNION { UNION { IF Cell(ex[1], ey[1]) # m.start
                    THEN { <<Cell(ex[1], ey[1]), ey[2]>> }
                    ELSE IF rng.seeded THEN chooseEnd(m, ey[2]) ELSE {}
                    : ey \in randomIndex(ex[2], m.height) }
            : ex \in randomIndex(rng, m.width) }

\* An iteration of the carving loop that, with no unvisited neighbour left,
\* leaves the loop instead of popping one cell.
carveStepBreaks(m, stack, rng) ==
    LET current == stack[Len(stack)]
        neighbors == getUnvisitedNeighbors(m, current[1], current[2])
    IN  IF Len(neighbors) > 0
        THEN { LET neighbor == neighbors[r[1] + 1]
                   opened == removeWall(m, current[1], current[2],
                                        neighbor.direction)
               IN  [m |-> [opened EXCEPT !.cells[neighbor.y][neighbor.x] = TRUE],
                    stack |-> Append(stack, Cell(neighbor.x, neighbor.y)),
                    rng |-> r[2]]
               : r \in randomIndex(rng, Len(neighbors)) }
        ELSE { [m |-> m, stack |-> <<>>, rng |-> rng] }

\* One iteration of the carving loop on a stack that is not empty: the
\* maze, the stack and the source it can leave.
carveStep(m, stack, rng) ==
    LET current == stack[Len(stack)]
        neighbors == getUnvisitedNeighbors(m, current[1], current[2])
    IN  IF Len(neighbors) > 0
        THEN { LET neighbor == neighbors[r[1] + 1]
                   opened == removeWall(m, current[1], current[2],
                                        neighbor.direction)
               IN  [m |-> [opened EXCEPT !.cells[neighbor.y][neighbor.x] = TRUE],
                    stack |-> Append(stack, Cell(neighbor.x, neighbor.y)),
                    rng |-> r[2]]
               : r \in randomIndex(rng, Len(neighbors)) }
        ELSE { [m |-> m, stack |-> SubSeq(stack, 1, Len(stack) - 1), rng |-> rng] }

\* The carving loop: one iteration per call, until the stack is empty.
RECURSIVE carve(_, _, _)
carve(m, stack, rng) ==
    IF stack = <<>> THEN {m}
    ELSE UNION { carve(n.m, n.stack, n.rng) : n \in carveStep(m, stack, rng) }

\* generate after its call of init().
generateFrom(m, rng) ==
    UNION { UNION { UNION {
        { calculatePath(ensurePathExists(carved))
          : carved \in carve([m EXCEPT !.start = Cell(sx[1], sy[1]),
                                       !.end = e[1],
                                       !.cells[sy[1]][sx[1]] = TRUE],
                             <<Cell(sx[1], sy[1])>>, e[2]) }
        : e \in chooseEnd([m EXCEPT !.start = Cell(sx[1], sy[1])], sy[2]) }
        : sy \in randomIndex(sx[2], m.height) }
        : sx \in randomIndex(rng, m.width) }

\* A generate that does not call init().
generateWithoutInit(m, rng) == generateFrom(m, rng)

\* generate: init(), then the draws, the carving and the two searches.
generate(m, rng) == generateFrom(Maze_init(m), rng)

\* generateFixedLevel: generate under the source seeded with level * 12345;
\* Math.random is put back afterwards.
generateFixedLevel(m, level) == generate(m, seededRandom(level * LevelSeedFactor))

\* generateWithSize
generateWithSize(m, size) ==
    generate([m EXCEPT !.width = size, !.height = size], AmbientRandom)

(***************************************************************************)
(* ViewSystem (src/view.js).  A JavaScript Set of cell keys is a set of    *)
(* keys; the key `${x},${y}` of two integers is the pair of the two        *)
(* numerals, which parseCellKey reads back.                                *)
(***************************************************************************)
getCellKey(x, y) == <<x, y>>

parseCellKey(cellKey) == [x |-> cellKey[1], y |-> cellKey[2]]

DefaultViewRange == 1

\* The range `options.viewRange || 1` falls back to.
FallbackViewRange == 1

\* constructor(options): `options.mode || 'permanent'` already applied, and
\* `options.viewRange || 1`, which replaces a range of 0.
ViewSystem(options) ==
    [mode |-> options.mode,
     viewRange |-> IF options.viewRange = 0 THEN FallbackViewRange
                   ELSE options.viewRange,
     visibleCells |-> {}, exploredCells |-> {}, permanentCells |-> {},
     cache |-> <<>>]

abs(n) == IF n < 0 THEN -n ELSE n

\* The loop of hasLineOfSight from (currentX, currentY) with error term err;
\* l holds the constants dx, dy, sx, sy and the target.
RECURSIVE lineWalk(_, _, _, _, _)
lineWalk(m, l, currentX, currentY, err) ==
    IF currentX = l.x2 /\ currentY = l.y2 THEN TRUE
    ELSE LET e2 == 2 * err
             stepX == e2 > -l.dy
             stepY == e2 < l.dx
             nextX == IF stepX THEN currentX + l.sx ELSE currentX
             nextY == IF stepY THEN currentY + l.sy ELSE currentY
             err2 == err - (IF stepX THEN l.dy ELSE 0) + (IF stepY THEN l.dx ELSE 0)
         IN  IF ~canMove(m, currentX, currentY, nextX - currentX, nextY - currentY)
             THEN FALSE
             ELSE lineWalk(m, l, nextX, nextY, err2)

\* hasLineOfSight(x1, y1, x2, y2, maze)
hasLineOfSight(x1, y1, x2, y2, m) ==
    LET l == [dx |-> abs(x2 - x1), dy |-> abs(y2 - y1),
              sx |-> IF x1 < x2 THEN 1 ELSE -1,
              sy |-> IF y1 < y2 THEN 1 ELSE -1,
              x2 |-> x2, y2 |-> y2]
    IN  lineWalk(m, l, x1, y1, l.dx - l.dy)

\* A calculateVisibleArea whose loops stop one short of viewRange.
calculateVisibleAreaNarrow(v, playerX, playerY, m) ==
    LET cacheKey == <<playerX, playerY, v.viewRange>>
        window == { c \in (playerX - v.viewRange .. playerX + v.viewRange - 1)
                          \X (playerY - v.viewRange .. playerY + v.viewRange - 1) :
                        /\ inGrid(m, c[1], c[2])
                        /\ hasLineOfSight(playerX, playerY, c[1], c[2], m) }
        visibleCells == { getCellKey(c[1], c[2]) : c \in window }
    IN  IF cacheKey \in DOMAIN v.cache
        THEN [cells |-> v.cache[cacheKey], v |-> v]
        ELSE [cells |-> visibleCells,
              v |-> [v EXCEPT !.cache = (cacheKey :> visibleCells) @@ @]]

\* calculateVisibleArea: the cached cells when the key is cached, else the
\* in-grid cells of the window with line of sight, which are then cached.
\* Gives the returned Set and the view system with its cache.
calculateVisibleArea(v, playerX, playerY, m) ==
    LET cacheKey == <<playerX, playerY, v.viewRange>>
        window == { c \in (playerX - v.viewRange .. playerX + v.viewRange)
                          \X (playerY - v.viewRange .. playerY + v.viewRange) :
                        /\ inGrid(m, c[1], c[2])
                        /\ hasLineOfSight(playerX, playerY, c[1], c[2], m) }
        visibleCells == { getCellKey(c[1], c[2]) : c \in window }
    IN  IF cacheKey \in DOMAIN v.cache
        THEN [cells |-> v.cache[cacheKey], v |-> v]
        ELSE [cells |-> visibleCells,
              v |-> [v EXCEPT !.cache = (cacheKey :> visibleCells) @@ @]]

\* An update that, in instant mode, adds to visibleCells instead of replacing it.
updateInstantKeepsVisible(v, playerX, playerY, m) ==
    LET r == calculateVisibleArea(v, playerX, playerY, m)
        newVisibleCells == r.cells
    IN  IF r.v.mode = "permanent"
        THEN [r.v EXCEPT
                !.exploredCells = @ \cup newVisibleCells,
                !.permanentCells = @ \cup newVisibleCells,
                !.visibleCells = newVisibleCells \cup r.v.permanentCells]
        ELSE [r.v EXCEPT
                !.exploredCells = newVisibleCells,
                !.visibleCells = v.visibleCells \cup newVisibleCells]

\* An update that, in permanent mode, does not merge permanentCells into visibleCells.
updateWithoutHistory(v, playerX, playerY, m) ==
    LET r == calculateVisibleArea(v, playerX, playerY, m)
        newVisibleCells == r.cells
    IN  IF r.v.mode = "permanent"
        THEN [r.v EXCEPT
                !.exploredCells = @ \cup newVisibleCells,
                !.permanentCells = @ \cup newVisibleCells,
                !.visibleCells = newVisibleCells]
        ELSE [r.v EXCEPT
                !.exploredCells = newVisibleCells,
                !.visibleCells = newVisibleCells]

\* An update that, in instant mode, does not clear exploredCells.
updateInstantKeepsExplored(v, playerX, playerY, m) ==
    LET r == calculateVisibleArea(v, playerX, playerY, m)
        newVisibleCells == r.cells
    IN  IF r.v.mode = "permanent"
        THEN [r.v EXCEPT
                !.exploredCells = @ \cup newVisibleCells,
                !.permanentCells = @ \cup newVisibleCells,
                !.visibleCells = newVisibleCells \cup r.v.permanentCells]
        ELSE [r.v EXCEPT
                !.exploredCells = @ \cup newVisibleCells,
                !.visibleCells = newVisibleCells]

\* An update that clears exploredCells in permanent mode too.
updatePermanentForgets(v, playerX, playerY, m) ==
    LET r == calculateVisibleArea(v, playerX, playerY, m)
        newVisibleCells == r.cells
    IN  IF r.v.mode = "permanent"
        THEN [r.v EXCEPT
                !.exploredCells = newVisibleCells,
                !.permanentCells = @ \cup newVisibleCells,
                !.visibleCells = newVisibleCells \cup r.v.permanentCells]
        ELSE [r.v EXCEPT
                !.exploredCells = newVisibleCells,
                !.visibleCells = newVisibleCells]

\* An update over a cache that holds the computed Set itself, not a copy: the
\* cells merged into that Set are merged into the cache entry.
updateSharingCachedSet(v, playerX, playerY, m) ==
    LET r == calculateVisibleArea(v, playerX, playerY, m)
        newVisibleCells == r.cells
    IN  IF r.v.mode = "permanent"
        THEN [r.v EXCEPT
                !.exploredCells = @ \cup newVisibleCells,
                !.permanentCells = @ \cup newVisibleCells,
                !.visibleCells = newVisibleCells \cup r.v.permanentCells,
                !.cache = IF <<playerX, playerY, v.viewRange>> \in DOMAIN v.cache
                          THEN @
                          ELSE [@ EXCEPT ![<<playerX, playerY, v.viewRange>>] =
                                   newVisibleCells \cup r.v.permanentCells]]
        ELSE [r.v EXCEPT
                !.exploredCells = newVisibleCells,
                !.visibleCells = newVisibleCells]

\* update: visibleCells becomes the new Set; in permanent mode the new cells
\* join exploredCells and permanentCells and all permanentCells join that
\* same Set; in instant mode exploredCells is emptied and refilled.
update(v, playerX, playerY, m) ==
    LET r == calculateVisibleArea(v, playerX, playerY, m)
        newVisibleCells == r.cells
    IN  IF r.v.mode = "permanent"
        THEN [r.v EXCEPT
                !.exploredCells = @ \cup newVisibleCells,
                !.permanentCells = @ \cup newVisibleCells,
                !.visibleCells = newVisibleCells \cup r.v.permanentCells]
        ELSE [r.v EXCEPT
                !.exploredCells = newVisibleCells,
                !.visibleCells = newVisibleCells]

\* A setMode that leaves the cache as it is.
setModeKeepsCache(v, mode) ==
    IF mode # "permanent" /\ mode # "instant" THEN v
    ELSE [v EXCEPT !.mode = mode]

\* setMode
setMode(v, mode) ==
    IF mode # "permanent" /\ mode # "instant" THEN v
    ELSE [v EXCEPT !.mode = mode, !.cache = <<>>]

\* setViewRange: the range is clamped to 1..5 and the cache emptied.
MinViewRange == 1
MaxViewRange == 5

setViewRange(v, range) ==
    LET r1 == IF range < MinViewRange THEN MinViewRange ELSE range
        r2 == IF r1 > MaxViewRange THEN MaxViewRange ELSE r1
    IN  [v EXCEPT !.viewRange = r2, !.cache = <<>>]

\* isCellVisible
isCellVisible(v, x, y) == getCellKey(x, y) \in v.visibleCells

\* isCellExplored
isCellExplored(v, x, y) == getCellKey(x, y) \in v.exploredCells

\* exportData: the two arrays hold the keys of the two sets, each once.
exportData(v) ==
    [mode |-> v.mode, viewRange |-> v.viewRange,
     exploredCells |-> v.exploredCells, permanentCells |-> v.permanentCells]

\* importData(data), data being a record of some of the four fields:
\* `data.mode || this.mode` and `data.viewRange || this.viewRange` keep the
\* old value for a missing field and for a range of 0; both sets are
\* emptied and then filled from the fields that are there; visibleCells is
\* assigned in permanent mode only; the cache is left alone.
importData(v, data) ==
    LET mode == IF "mode" \in DOMAIN data THEN data.mode ELSE v.mode
        viewRange == IF "viewRange" \in DOMAIN data /\ data.viewRange # 0
                     THEN data.viewRange ELSE v.viewRange
        exploredCells == IF "exploredCells" \in DOMAIN data
                         THEN data.exploredCells ELSE {}
        permanentCells == IF "permanentCells" \in DOMAIN data
                          THEN data.permanentCells ELSE {}
    IN  [v EXCEPT !.mode = mode, !.viewRange = viewRange,
                  !.exploredCells = exploredCells,
                  !.permanentCells = permanentCells,
                  !.visibleCells = IF mode = "permanent" THEN permanentCells ELSE @]

\* A Set is iterated in insertion order.  visibleCells holds the window's
\* cells inserted row by row (dy outside, dx inside), then the permanent
\* cells that are not in the window.
RECURSIVE rowMajor(_)
rowMajor(S) ==
    IF S = {} THEN <<>>
    ELSE LET first == CHOOSE c \in S :
                         \A d \in S : c[2] < d[2] \/ (c[2] = d[2] /\ c[1] <= d[1])
         IN  <<first>> \o rowMajor(S \ {first})

\* getVisibleCells, given the cells of the current window.
getVisibleCells(v, window) ==
    LET keys == rowMajor(v.visibleCells \cap window)
                    \o rowMajor(v.visibleCells \ window)
    IN  [i \in 1 .. Len(keys) |-> parseCellKey(keys[i])]

(***************************************************************************)
(* Game (src/game.js).  A game is the record of the object's fields;       *)
(* emitted lists the triggerEvent calls of the current call in order, as   *)
(* a listener registered for every event receives them, and delivered the  *)
(* calls of the registered callbacks that these made.  A callback is a     *)
(* record of its identity and of whether it throws when called.            *)
(***************************************************************************)
\* startTime and endTime are instants in milliseconds, or null: null is 0
\* here, the number JavaScript's arithmetic takes it for.
nullTime == 0

NotStartedState ==
    [isRunning |-> FALSE, isPaused |-> FALSE, isGameOver |-> FALSE,
     isVictory |-> FALSE, moves |-> 0, startTime |-> nullTime, endTime |-> nullTime]

\* The events a game has a listener array for.
EventNames == {"onGameStart", "onGameOver", "onVictory", "onMove", "onCellExplored"}

\* The callbacks registered for event, in registration order.
listenersOf(g, event) ==
    IF event \in DOMAIN g.eventListeners THEN g.eventListeners[event] ELSE <<>>

\* The loop of triggerEvent without its try/catch: the callbacks are called
\* up to the first one that throws, whose error leaves the loop.
RECURSIVE callUncaught(_, _, _)
callUncaught(listeners, event, i) ==
    IF i > Len(listeners) THEN <<>>
    ELSE IF listeners[i].throws
         THEN << [event |-> event, id |-> listeners[i].id, outcome |-> "uncaught"] >>
         ELSE << [event |-> event, id |-> listeners[i].id, outcome |-> "returned"] >>
                  \o callUncaught(listeners, event, i + 1)

triggerEventWithoutCatch(g, event, data) ==
    [g EXCEPT !.emitted = Append(@, [event |-> event, data |-> data]),
              !.delivered = @ \o callUncaught(listenersOf(g, event), event, 1)]

\* triggerEvent: every callback of the event is called in a try/catch of
\* its own, so a callback that throws is logged and the loop goes on.
triggerEvent(g, event, data) ==
    LET listeners == listenersOf(g, event)
    IN  [g EXCEPT
           !.emitted = Append(@, [event |-> event, data |-> data]),
           !.delivered = @ \o
               [i \in 1 .. Len(listeners) |->
                   [event |-> event, id |-> listeners[i].id,
                    outcome |-> IF listeners[i].throws THEN "caught"
                                ELSE "returned"]]]

\* addEventListener
addEventListener(g, event, callback) ==
    IF event \in DOMAIN g.eventListeners
    THEN [g EXCEPT !.eventListeners[event] = Append(@, callback)]
    ELSE g

\* The loop of updateVisibility over the visible cells, from the i-th on.
RECURSIVE exploreFrom(_, _, _)
exploreFrom(g, cells, i) ==
    IF i > Len(cells) THEN g
    ELSE LET cellKey == getCellKey(cells[i].x, cells[i].y)
         IN  IF cellKey \notin g.exploredCells
             THEN LET g1 == [g EXCEPT !.exploredCells = @ \cup {cellKey}]
                  IN  exploreFrom(
                          triggerEvent(g1, "onCellExplored",
                              [x |-> cells[i].x, y |-> cells[i].y,
                               totalExplored |-> Cardinality(g1.exploredCells),
                               totalCells |-> g.config.mazeSize * g.config.mazeSize]),
                          cells, i + 1)
             ELSE exploreFrom(g, cells, i + 1)

\* An updateVisibility that starts its loop from the visited cells alone.
updateVisibilityFromVisited(g) ==
    LET r == calculateVisibleArea(g.viewSystem, g.player.x, g.player.y, g.maze)
        g1 == [g EXCEPT !.viewSystem = update(@, g.player.x, g.player.y, g.maze),
                        !.exploredCells = g.visitedCells]
    IN  exploreFrom(g1, getVisibleCells(g1.viewSystem, r.cells), 1)

\* updateVisibility
updateVisibility(g) ==
    LET r == calculateVisibleArea(g.viewSystem, g.player.x, g.player.y, g.maze)
        g1 == [g EXCEPT !.viewSystem = update(@, g.player.x, g.player.y, g.maze)]
    IN  exploreFrom(g1, getVisibleCells(g1.viewSystem, r.cells), 1)

\* An init that adds the start to exploredCells and visitedCells without
\* clearing them first.
Game_initWithoutClear(g, m) ==
    LET startKey == getCellKey(m.start[1], m.start[2])
        g1 == [g EXCEPT
                 !.maze = m,
                 !.player = [x |-> m.start[1], y |-> m.start[2],
                             prevX |-> m.start[1], prevY |-> m.start[2]],
                 !.exploredCells = @ \cup {startKey},
                 !.visitedCells = @ \cup {startKey},
                 !.viewSystem = ViewSystem([mode |-> g.config.viewMode,
                                            viewRange |-> DefaultViewRange])]
    IN  [updateVisibility(g1) EXCEPT !.state = NotStartedState]

\* Game.init once `new Maze(size, size).generate()` has given the maze m.
Game_initWith(g, m) ==
    LET startKey == getCellKey(m.start[1], m.start[2])
        g1 == [g EXCEPT
                 !.maze = m,
                 !.player = [x |-> m.start[1], y |-> m.start[2],
                             prevX |-> m.start[1], prevY |-> m.start[2]],
                 !.exploredCells = {startKey},
                 !.visitedCells = {startKey},
                 !.viewSystem = ViewSystem([mode |-> g.config.viewMode,
                                            viewRange |-> DefaultViewRange])]
    IN  [updateVisibility(g1) EXCEPT !.state = NotStartedState]

\* A start that leaves isGameOver and isVictory as they are.
startKeepsOutcome(g, now) ==
    IF g.state.isRunning THEN g
    ELSE triggerEvent(
             [g EXCEPT !.state.isRunning = TRUE, !.state.startTime = now],
             "onGameStart",
             [mazeSize |-> g.config.mazeSize, viewMode |-> g.config.viewMode,
              startPosition |-> g.player, endPosition |-> g.maze.end])

\* start
start(g, now) ==
    IF g.state.isRunning THEN g
    ELSE triggerEvent(
             [g EXCEPT !.state.isRunning = TRUE, !.state.startTime = now,
                       !.state.isGameOver = FALSE, !.state.isVictory = FALSE],
             "onGameStart",
             [mazeSize |-> g.config.mazeSize, viewMode |-> g.config.viewMode,
              startPosition |-> g.player, endPosition |-> g.maze.end])

\* A togglePause that does not look at isRunning.
togglePauseNotRunning(g) ==
    IF g.state.isGameOver THEN g
    ELSE [g EXCEPT !.state.isPaused = ~@]

\* togglePause
togglePause(g) ==
    IF ~g.state.isRunning \/ g.state.isGameOver THEN g
    ELSE [g EXCEPT !.state.isPaused = ~@]

\* Math.floor((endTime - startTime) / 1000)
elapsedSeconds(startTime, endTime) == (endTime - startTime) \div 1000

\* Math.round((n / total) * 100)
roundPercent(n, total) == (200 * n + total) \div (2 * total)

\* A victory that leaves the game running.
victoryStillRunning(g, now) ==
    LET g1 == [g EXCEPT !.state.isGameOver = TRUE, !.state.isVictory = TRUE,
                        !.state.endTime = now]
        totalCells == g.config.mazeSize * g.config.mazeSize
    IN  triggerEvent(g1, "onVictory",
            [moves |-> g1.state.moves,
             time |-> elapsedSeconds(g1.state.startTime, now),
             exploreRate |-> roundPercent(Cardinality(g1.exploredCells), totalCells),
             exploredCells |-> Cardinality(g1.exploredCells),
             totalCells |-> totalCells])

\* victory
victory(g, now) ==
    LET g1 == [g EXCEPT !.state.isGameOver = TRUE, !.state.isVictory = TRUE,
                        !.state.endTime = now, !.state.isRunning = FALSE]
        totalCells == g.config.mazeSize * g.config.mazeSize
    IN  triggerEvent(g1, "onVictory",
            [moves |-> g1.state.moves,
             time |-> elapsedSeconds(g1.state.startTime, now),
             exploreRate |-> roundPercent(Cardinality(g1.exploredCells), totalCells),
             exploredCells |-> Cardinality(g1.exploredCells),
             totalCells |-> totalCells])

\* gameOver
gameOver(g, now) ==
    LET g1 == [g EXCEPT !.state.isGameOver = TRUE, !.state.isVictory = FALSE,
                        !.state.endTime = now, !.state.isRunning = FALSE]
    IN  triggerEvent(g1, "onGameOver",
            [moves |-> g1.state.moves,
             time |-> elapsedSeconds(g1.state.startTime, now)])

\* movePlayer up to its last early return: whether the call is rejected.
moveRejected(g, dx, dy) ==
    LET newX == g.player.x + dx
        newY == g.player.y + dy
    IN  \/ ~g.state.isRunning \/ g.state.isPaused \/ g.state.isGameOver
        \/ (dx = 0 /\ dy = 0) \/ abs(dx) > 1 \/ abs(dy) > 1
        \/ newX < 0 \/ newX >= g.config.mazeSize
        \/ newY < 0 \/ newY >= g.config.mazeSize
        \/ ~canMove(g.maze, g.player.x, g.player.y, dx, dy)

\* A move that announces itself before the view is updated.
commitMoveAnnouncedFirst(g, newX, newY, now) ==
    LET g1 == [g EXCEPT
                 !.player = [x |-> newX, y |-> newY,
                             prevX |-> g.player.x, prevY |-> g.player.y],
                 !.state.moves = @ + 1,
                 !.visitedCells = @ \cup {getCellKey(newX, newY)}]
        g2 == updateVisibility(
                  triggerEvent(g1, "onMove",
                      [from |-> <<g1.player.prevX, g1.player.prevY>>,
                       to |-> <<newX, newY>>,
                       moves |-> g1.state.moves]))
    IN  IF newX = g.maze.end[1] /\ newY = g.maze.end[2]
        THEN victory(g2, now)
        ELSE g2

\* A move that takes the end's column for the end.
commitMoveEndByColumn(g, newX, newY, now) ==
    LET g1 == [g EXCEPT
                 !.player = [x |-> newX, y |-> newY,
                             prevX |-> g.player.x, prevY |-> g.player.y],
                 !.state.moves = @ + 1,
                 !.visitedCells = @ \cup {getCellKey(newX, newY)}]
        g2 == triggerEvent(updateVisibility(g1), "onMove",
                  [from |-> <<g1.player.prevX, g1.player.prevY>>,
                   to |-> <<newX, newY>>,
                   moves |-> g1.state.moves])
    IN  IF newX = g.maze.end[1]
        THEN victory(g2, now)
        ELSE g2

\* A move that does not record the new cell as visited.
commitMoveForgetsVisit(g, newX, newY, now) ==
    LET g1 == [g EXCEPT
                 !.player = [x |-> newX, y |-> newY,
                             prevX |-> g.player.x, prevY |-> g.player.y],
                 !.state.moves = @ + 1]
        g2 == triggerEvent(updateVisibility(g1), "onMove",
                  [from |-> <<g1.player.prevX, g1.player.prevY>>,
                   to |-> <<newX, newY>>,
                   moves |-> g1.state.moves])
    IN  IF newX = g.maze.end[1] /\ newY = g.maze.end[2]
        THEN victory(g2, now)
        ELSE g2

\* movePlayer after its early returns: the move is made, the view updated,
\* the events triggered.
commitMove(g, newX, newY, now) ==
    LET g1 == [g EXCEPT
                 !.player = [x |-> newX, y |-> newY,
                             prevX |-> g.player.x, prevY |-> g.player.y],
                 !.state.moves = @ + 1,
                 !.visitedCells = @ \cup {getCellKey(newX, newY)}]
        g2 == triggerEvent(updateVisibility(g1), "onMove",
                  [from |-> <<g1.player.prevX, g1.player.prevY>>,
                   to |-> <<newX, newY>>,
                   moves |-> g1.state.moves])
    IN  IF newX = g.maze.end[1] /\ newY = g.maze.end[2]
        THEN victory(g2, now)
        ELSE g2

\* A movePlayer that counts the move before it looks at the walls.
movePlayerCountsBlocked(g, dx, dy, now) ==
    LET newX == g.player.x + dx
        newY == g.player.y + dy
        blockedByWall ==
            /\ g.state.isRunning /\ ~g.state.isPaused /\ ~g.state.isGameOver
            /\ ~((dx = 0 /\ dy = 0) \/ abs(dx) > 1 \/ abs(dy) > 1)
            /\ newX >= 0 /\ newX < g.config.mazeSize
            /\ newY >= 0 /\ newY < g.config.mazeSize
            /\ ~canMove(g.maze, g.player.x, g.player.y, dx, dy)
    IN  IF blockedByWall
        THEN [g |-> [g EXCEPT !.state.moves = @ + 1], ret |-> FALSE]
        ELSE IF moveRejected(g, dx, dy)
        THEN [g |-> g, ret |-> FALSE]
        ELSE [g |-> commitMove(g, newX, newY, now), ret |-> TRUE]

\* movePlayer: the game after the call and the value returned.
movePlayer(g, dx, dy, now) ==
    IF moveRejected(g, dx, dy)
    THEN [g |-> g, ret |-> FALSE]
    ELSE [g |-> commitMove(g, g.player.x + dx, g.player.y + dy, now), ret |-> TRUE]

\* setViewMode
setViewMode(g, mode) ==
    IF mode # "permanent" /\ mode # "instant" THEN g
    ELSE updateVisibility([g EXCEPT !.viewSystem = setMode(@, mode),
                                    !.config.viewMode = mode])

\* `new Maze(size, size).generate()` in Game.init: the mazes it can give,
\* computed once for each size.
GameMazes == [size \in GameSizes \cup WalkSizes |-> generate(Maze(size, size), AmbientRandom)]

\* init
Game_init(g) == { Game_initWith(g, m) : m \in GameMazes[g.config.mazeSize] }

\* constructor(options), with `options.mazeSize || 15` and
\* `options.viewMode || 'permanent'` already applied.
Game(options) ==
    Game_init([config |-> [mazeSize |-> options.mazeSize,
                           viewMode |-> options.viewMode,
                           showSolution |-> FALSE],
               state |-> NotStartedState,
               maze |-> null, player |-> null, viewSystem |-> null,
               exploredCells |-> {}, visitedCells |-> {},
               eventListeners |-> [event \in EventNames |-> <<>>],
               emitted |-> <<>>, delivered |-> <<>>])

\* restart
restart(g, now) == { start(g1, now) : g1 \in Game_init(g) }

\* A showSolution that takes the first cell off the path it shows.
showSolutionShiftsPath(g) ==
    [g EXCEPT !.config.showSolution = TRUE, !.maze.path = Tail(@)]

\* showSolution, hideSolution
showSolution(g) == [g EXCEPT !.config.showSolution = TRUE]

hideSolution(g) == [g EXCEPT !.config.showSolution = FALSE]

\* The game's own isCellExplored reads the game's set of explored cells.
Game_isCellExplored(g, x, y) == getCellKey(x, y) \in g.exploredCells

\* The exploreRate of getStats() and of the victory event.
Game_exploreRate(g) ==
    roundPercent(Cardinality(g.exploredCells),
                 g.config.mazeSize * g.config.mazeSize)

\* getExplorationRate of the view system.
getExplorationRate(v, totalCells) ==
    IF totalCells <= 0 THEN 0
    ELSE roundPercent(Cardinality(v.exploredCells), totalCells)

\* setMazeSize: a size outside 5..30 is refused, any other is stored and
\* the game restarted.
MinMazeSize == 5
MaxMazeSize == 30

setMazeSize(g, size, now) ==
    IF size < MinMazeSize \/ size > MaxMazeSize THEN {g}
    ELSE restart([g EXCEPT !.config.mazeSize = size], now)

(***************************************************************************)
(* Saving and loading (src/maze.js, the functions around the game).        *)
(***************************************************************************)
\* exportGameState: of getGameState() the copy of this.state is kept; the
\* figures it derives from the other fields are left out.
exportGameState(g) ==
    [config |-> g.config,
     state |-> g.state,
     maze |-> [width |-> g.maze.width, height |-> g.maze.height,
               start |-> g.maze.start, end |-> g.maze.end,
               walls |-> g.maze.walls],
     player |-> g.player,
     exploredCells |-> g.exploredCells,
     visitedCells |-> g.visitedCells]

\* importGameState: `game = new Game(savedState.config)`, then
\* `game.config = { ...savedState.config }`; nothing else is restored.
importGameState(savedState) ==
    { [g EXCEPT !.config = savedState.config] : g \in Game(savedState.config) }

(***************************************************************************)
(* The Maze on its own: constructed, generated once by the ambient source  *)
(* (as Game.init does), and regenerated as a fixed level over whatever an  *)
(* earlier generation left.                                                *)
(***************************************************************************)
NoGame == null

NoMaze == null

InitMaze ==
    /\ \E w \in Sizes, h \in Sizes : maze = Maze(w, h)
    /\ game = NoGame
    /\ call = [op |-> "Maze"]

Generate ==
    /\ call.op = "Maze"
    /\ \E m \in generate(maze, AmbientRandom) : maze' = m
    /\ call' = [op |-> "generate"]
    /\ UNCHANGED game

GenerateFixedLevel ==
    \E level \in 1 .. MaxLevel :
        /\ \E m \in generateFixedLevel(maze, level) : maze' = m
        /\ call' = [op |-> "generateFixedLevel", level |-> level,
                    previous |-> call.op]
        /\ UNCHANGED game

NextMaze == Generate \/ GenerateFixedLevel

SpecMaze == InitMaze /\ [][NextMaze]_vars

(***************************************************************************)
(* generate() step by step under the ambient source: init() and the draw   *)
(* of start, the draws of end, the iterations of the carving loop, then    *)
(* ensurePathExists and calculatePath.  call holds the stack, and for each *)
(* cell how often it was pushed and popped.                                *)
(***************************************************************************)
CarveStart ==
    /\ call.op = "Maze"
    /\ \E sx \in randomIndex(AmbientRandom, maze.width) :
           \E sy \in randomIndex(sx[2], maze.height) :
               maze' = [Maze_init(maze) EXCEPT !.start = Cell(sx[1], sy[1])]
    /\ call' = [op |-> "drawEnd"]
    /\ UNCHANGED game

\* One round of the do-while: a draw equal to start is drawn again.
CarveDrawEnd ==
    /\ call.op = "drawEnd"
    /\ \E ex \in randomIndex(AmbientRandom, maze.width) :
           \E ey \in randomIndex(ex[2], maze.height) :
               IF Cell(ex[1], ey[1]) = maze.start
               THEN UNCHANGED <<maze, call>>
               ELSE /\ maze' = [maze EXCEPT
                                  !.end = Cell(ex[1], ey[1]),
                                  !.cells[maze.start[2]][maze.start[1]] = TRUE]
                    /\ call' = [op |-> "carve", stack |-> <<maze.start>>,
                                pushes |-> [c \in GridCells(maze) |->
                                               IF c = maze.start THEN 1 ELSE 0],
                                pops |-> [c \in GridCells(maze) |-> 0]]
    /\ UNCHANGED game

CarveStep ==
    /\ call.op = "carve"
    /\ call.stack # <<>>
    /\ \E n \in carveStep(maze, call.stack, AmbientRandom) :
           /\ maze' = n.m
           /\ call' = IF Len(n.stack) > Len(call.stack)
                      THEN [call EXCEPT !.stack = n.stack,
                                        !.pushes[n.stack[Len(n.stack)]] = @ + 1]
                      ELSE [call EXCEPT !.stack = n.stack,
                                        !.pops[call.stack[Len(call.stack)]] = @ + 1]
    /\ UNCHANGED game

CarveEnsurePathExists ==
    /\ call.op = "carve"
    /\ call.stack = <<>>
    /\ maze' = ensurePathExists(maze)
    /\ call' = [op |-> "ensurePathExists"]
    /\ UNCHANGED game

CarveCalculatePath ==
    /\ call.op = "ensurePathExists"
    /\ maze' = calculatePath(maze)
    /\ call' = [op |-> "generate"]
    /\ UNCHANGED game

NextCarve ==
    \/ CarveStart \/ CarveDrawEnd \/ CarveStep
    \/ CarveEnsurePathExists \/ CarveCalculatePath

SpecCarve == InitMaze /\ [][NextCarve]_vars

\* The program runs on: generate() is entered, every round of the do-while
\* draws anew, so that a draw that can be made for ever is made, and the
\* carving loop makes its next iteration.
SpecCarveFair ==
    SpecCarve /\ WF_vars(CarveStart) /\ WF_vars(CarveDrawEnd) /\ WF_vars(CarveStep)

(***************************************************************************)
(* The game: constructed, then driven by calls of its methods.  Date.now() *)
(* gives one of the instants in Times.                                     *)
(***************************************************************************)
Times == { 1000 * k : k \in 1 .. MaxTime }

MoveDeltas == -2 .. 1

Modes == {"permanent", "instant"}

\* The game as a call finds it: nothing emitted or delivered yet.
Called == [game EXCEPT !.emitted = <<>>, !.delivered = <<>>]

Init ==
    /\ maze = NoMaze
    /\ \E size \in GameSizes, mode \in Modes :
           game \in Game([mazeSize |-> size, viewMode |-> mode])
    /\ call = [op |-> "Game"]

Start ==
    \E now \in Times :
        /\ game' = start(Called, now)
        /\ call' = [op |-> "start"]
        /\ UNCHANGED maze

TogglePause ==
    /\ game' = togglePause(Called)
    /\ call' = [op |-> "togglePause"]
    /\ UNCHANGED maze

MovePlayer ==
    \E dx \in MoveDeltas, dy \in MoveDeltas, now \in Times :
        /\ game.state.moves < MaxMoves
        /\ LET r == movePlayer(Called, dx, dy, now)
           IN  /\ game' = r.g
               /\ call' = [op |-> "movePlayer", ret |-> r.ret]
        /\ UNCHANGED maze

GameOver ==
    \E now \in Times :
        /\ game' = gameOver(Called, now)
        /\ call' = [op |-> "gameOver"]
        /\ UNCHANGED maze

Next == Start \/ TogglePause \/ MovePlayer \/ GameOver

Spec == Init /\ [][Next]_vars

(***************************************************************************)
(* The walk along the solution path: a game is constructed and started,    *)
(* and movePlayer is called with the successive differences of the path    *)
(* that getSolutionPath() returned, whatever each call returns.            *)
(***************************************************************************)
InitWalk ==
    /\ maze = NoMaze
    /\ \E size \in WalkSizes, mode \in Modes :
           game \in Game([mazeSize |-> size, viewMode |-> mode])
    /\ call = [op |-> "Game"]

StartWalk ==
    /\ call.op = "Game"
    /\ \E now \in Times : game' = start(Called, now)
    /\ call' = [op |-> "start", step |-> 0]
    /\ UNCHANGED maze

WalkStep ==
    /\ call.op \in {"start", "movePlayer"}
    /\ call.step + 1 < Len(game.maze.path)
    /\ LET from == game.maze.path[call.step + 1]
           to == game.maze.path[call.step + 2]
       IN  \E now \in Times :
               LET r == movePlayer(Called, to[1] - from[1], to[2] - from[2], now)
               IN  /\ game' = r.g
                   /\ call' = [op |-> "movePlayer", ret |-> r.ret,
                               step |-> call.step + 1]
    /\ UNCHANGED maze

NextWalk == StartWalk \/ WalkStep

SpecWalk == InitWalk /\ [][NextWalk]_vars

(***************************************************************************)
(* canMove asked about cells in and around the grid of a maze generated    *)
(* as a fixed level.                                                       *)
(***************************************************************************)
UnitDirections == { <<0, -1>>, <<1, 0>>, <<0, 1>>, <<-1, 0>> }

CanMove ==
    /\ maze.path # <<>>
    /\ \E x \in -Margin .. maze.width - 1 + Margin,
          y \in -Margin .. maze.height - 1 + Margin,
          d \in UnitDirections :
           call' = [op |-> "canMove", x |-> x, y |-> y, dx |-> d[1], dy |-> d[2],
                    outcome |-> canMoveCall(maze, x, y, d[1], d[2])]
    /\ UNCHANGED <<maze, game>>

NextCanMove == GenerateFixedLevel \/ CanMove

SpecCanMove == InitMaze /\ [][NextCanMove]_vars

(***************************************************************************)
(* The game restarted, saved and loaded: the calls of Spec with restart,   *)
(* setViewMode and a save followed by a load, and fewer moves.             *)
(***************************************************************************)
\* Every call of these games reads the clock at the same instant.
RestartTime == 1000

RestartStart ==
    /\ game' = start(Called, RestartTime)
    /\ call' = [op |-> "start"]
    /\ UNCHANGED maze

RestartGameOver ==
    /\ game' = gameOver(Called, RestartTime)
    /\ call' = [op |-> "gameOver"]
    /\ UNCHANGED maze

RestartMove ==
    \E d \in UnitDirections :
        /\ game.state.moves < MaxRestartMoves
        /\ LET r == movePlayer(Called, d[1], d[2], RestartTime)
           IN  /\ game' = r.g
               /\ call' = [op |-> "movePlayer", ret |-> r.ret]
        /\ UNCHANGED maze

\* The state of the game as the specification names it.
phase(g) ==
    IF g.state.isGameOver THEN "Over"
    ELSE IF ~g.state.isRunning THEN "NotStarted"
    ELSE IF g.state.isPaused THEN "Paused"
    ELSE "Running"

Restart ==
    /\ game' \in restart(Called, RestartTime)
    /\ call' = [op |-> "restart", from |-> phase(game)]
    /\ UNCHANGED maze

SetViewMode ==
    \E mode \in Modes \cup {"other"} :
        /\ game' = setViewMode(Called, mode)
        /\ call' = [op |-> "setViewMode", mode |-> mode]
        /\ UNCHANGED maze

\* The sizes setMazeSize is asked for: the size of the game itself, which
\* is below the smallest size it accepts.
SetMazeSize ==
    \E size \in GameSizes :
        /\ game' \in setMazeSize(Called, size, RestartTime)
        /\ call' = [op |-> "setMazeSize", size |-> size]
        /\ UNCHANGED maze

NextRestart ==
    \/ RestartStart \/ TogglePause \/ RestartGameOver \/ RestartMove
    \/ Restart \/ SetViewMode \/ SetMazeSize

SpecRestart == Init /\ [][NextRestart]_vars

\* saveGame() and then loadGame(): importGameState(exportGameState()).
ImportGameState ==
    /\ game' \in importGameState(exportGameState(Called))
    /\ call' = [op |-> "importGameState"]
    /\ UNCHANGED maze

NextSave == RestartStart \/ RestartMove \/ ImportGameState

SpecSave == Init /\ [][NextSave]_vars

(***************************************************************************)
(* The operations on a constructed game that keep its maze (all but        *)
(* restart and setMazeSize) and those on the view system getViewSystem()   *)
(* returns, in any order; call.n counts the calls.                         *)
(***************************************************************************)
MaxGridCalls == 3

InitGrid ==
    /\ maze = NoMaze
    /\ \E size \in GameSizes, mode \in Modes :
           game \in Game([mazeSize |-> size, viewMode |-> mode])
    /\ call = [op |-> "Game", n |-> 0]

GridStart ==
    /\ call.n < MaxGridCalls
    /\ game' = start(Called, RestartTime)
    /\ call' = [op |-> "start", n |-> call.n + 1]
    /\ UNCHANGED maze

GridTogglePause ==
    /\ call.n < MaxGridCalls
    /\ game' = togglePause(Called)
    /\ call' = [op |-> "togglePause", n |-> call.n + 1]
    /\ UNCHANGED maze

GridMovePlayer ==
    /\ call.n < MaxGridCalls
    /\ \E d \in UnitDirections :
           LET r == movePlayer(Called, d[1], d[2], RestartTime)
           IN  /\ game' = r.g
               /\ call' = [op |-> "movePlayer", n |-> call.n + 1, ret |-> r.ret]
    /\ UNCHANGED maze

GridGameOver ==
    /\ call.n < MaxGridCalls
    /\ game' = gameOver(Called, RestartTime)
    /\ call' = [op |-> "gameOver", n |-> call.n + 1]
    /\ UNCHANGED maze

GridSetViewMode ==
    /\ call.n < MaxGridCalls
    /\ \E mode \in Modes \cup {"other"} :
           /\ game' = setViewMode(Called, mode)
           /\ call' = [op |-> "setViewMode", n |-> call.n + 1, mode |-> mode]
    /\ UNCHANGED maze

ShowSolution ==
    /\ call.n < MaxGridCalls
    /\ game' = showSolution(Called)
    /\ call' = [op |-> "showSolution", n |-> call.n + 1]
    /\ UNCHANGED maze

HideSolution ==
    /\ call.n < MaxGridCalls
    /\ game' = hideSolution(Called)
    /\ call' = [op |-> "hideSolution", n |-> call.n + 1]
    /\ UNCHANGED maze

GridViewUpdate ==
    /\ call.n < MaxGridCalls
    /\ \E c \in GridCells(game.maze) :
           /\ game' = [Called EXCEPT
                          !.viewSystem = update(@, c[1], c[2], game.maze)]
           /\ call' = [op |-> "update", n |-> call.n + 1, x |-> c[1], y |-> c[2]]
    /\ UNCHANGED maze

GridViewSetMode ==
    /\ call.n < MaxGridCalls
    /\ \E mode \in Modes \cup {"other"} :
           /\ game' = [Called EXCEPT !.viewSystem = setMode(@, mode)]
           /\ call' = [op |-> "setMode", n |-> call.n + 1, mode |-> mode]
    /\ UNCHANGED maze

GridViewSetViewRange ==
    /\ call.n < MaxGridCalls
    /\ \E range \in MinViewRange .. MinViewRange + 1 :
           /\ game' = [Called EXCEPT !.viewSystem = setViewRange(@, range)]
           /\ call' = [op |-> "setViewRange", n |-> call.n + 1, range |-> range]
    /\ UNCHANGED maze

NextGrid ==
    \/ GridStart \/ GridTogglePause \/ GridMovePlayer \/ GridGameOver
    \/ GridSetViewMode
    \/ ShowSolution \/ HideSolution
    \/ GridViewUpdate \/ GridViewSetMode \/ GridViewSetViewRange

SpecGrid == InitGrid /\ [][NextGrid]_vars

(***************************************************************************)
(* The view system of a game, driven both through the game (movePlayer,    *)
(* setViewMode, restart) and directly on the instance getViewSystem()      *)
(* returns (update, setMode, setViewRange), always with the game's maze.   *)
(* generate() gives one of ViewMazes; call.n counts the calls.             *)
(***************************************************************************)
ViewMazes ==
    { m \in UNION { GameMazes[size] : size \in ViewSizes } :
        m.start = ViewStart /\ m.end = ViewEnd /\ Len(m.path) \in ViewPathLengths }

Ranges == 0 .. 2

InitView ==
    /\ maze = NoMaze
    /\ \E size \in ViewSizes, mode \in Modes :
           /\ game \in Game([mazeSize |-> size, viewMode |-> mode])
           /\ game.maze \in ViewMazes
    /\ call = [op |-> "Game", n |-> 0]

ViewUpdate ==
    /\ call.n < MaxViewCalls
    /\ \E c \in GridCells(game.maze) :
           LET v == update(game.viewSystem, c[1], c[2], game.maze)
           IN  /\ game' = [Called EXCEPT !.viewSystem = v]
               /\ call' = [op |-> "update", n |-> call.n + 1,
                           x |-> c[1], y |-> c[2], returned |-> v.visibleCells]
    /\ UNCHANGED maze

ViewSetMode ==
    /\ call.n < MaxViewCalls
    /\ \E mode \in Modes \cup {"other"} :
           /\ game' = [Called EXCEPT !.viewSystem = setMode(@, mode)]
           /\ call' = [op |-> "setMode", n |-> call.n + 1, mode |-> mode]
    /\ UNCHANGED maze

ViewSetViewRange ==
    /\ call.n < MaxViewCalls
    /\ \E range \in Ranges :
           /\ game' = [Called EXCEPT !.viewSystem = setViewRange(@, range)]
           /\ call' = [op |-> "setViewRange", n |-> call.n + 1, range |-> range]
    /\ UNCHANGED maze

ViewMovePlayer ==
    /\ call.n < MaxViewCalls
    /\ \E d \in UnitDirections, now \in ViewTimes :
           LET r == movePlayer(Called, d[1], d[2], now)
           IN  /\ game' = r.g
               /\ call' = [op |-> "movePlayer", n |-> call.n + 1, ret |-> r.ret]
    /\ UNCHANGED maze

ViewSetViewMode ==
    /\ call.n < MaxViewCalls
    /\ \E mode \in Modes \cup {"other"} :
           /\ game' = setViewMode(Called, mode)
           /\ call' = [op |-> "setViewMode", n |-> call.n + 1, mode |-> mode]
    /\ UNCHANGED maze

\* restart: init() with the maze generate() gives, then start().
ViewRestart ==
    /\ call.n < MaxViewCalls
    /\ \E m \in ViewMazes, now \in ViewTimes :
           /\ m.width = game.config.mazeSize
           /\ game' = start(Game_initWith(Called, m), now)
    /\ call' = [op |-> "restart", n |-> call.n + 1]
    /\ UNCHANGED maze

NextView ==
    \/ ViewUpdate \/ ViewSetMode \/ ViewSetViewRange
    \/ ViewMovePlayer \/ ViewSetViewMode \/ ViewRestart

SpecView == InitView /\ [][NextView]_vars

(***************************************************************************)
(* The game with listeners: callbacks that return or throw are registered, *)
(* and the game is started, moved and ended.                               *)
(***************************************************************************)
\* The games listened to start in the corner (0, 0), in permanent mode.
EventMazes == { m \in UNION { GameMazes[size] : size \in GameSizes } :
                  m.start = Cell(0, 0) }

\* The callbacks that are registered, in this order.
ListenerIds == {1, 2}

registered(g) == UNION { { g.eventListeners[e][i].id : i \in 1 .. Len(g.eventListeners[e]) }
                         : e \in DOMAIN g.eventListeners }

InitEvents ==
    /\ maze = NoMaze
    /\ \E size \in GameSizes :
           /\ game \in Game([mazeSize |-> size, viewMode |-> "permanent"])
           /\ game.maze \in EventMazes
    /\ call = [op |-> "Game"]

AddEventListener ==
    /\ Cardinality(registered(game)) + 1 \in ListenerIds
    /\ \E event \in EventNames \cup {"other"}, throws \in BOOLEAN :
           /\ game' = addEventListener(Called, event,
                          [id |-> Cardinality(registered(game)) + 1,
                           throws |-> throws])
           /\ call' = [op |-> "addEventListener", event |-> event]
    /\ UNCHANGED maze

EventMove ==
    \E d \in UnitDirections :
        /\ game.state.moves < MaxRestartMoves
        /\ LET r == movePlayer(Called, d[1], d[2], RestartTime)
           IN  /\ game' = r.g
               /\ call' = [op |-> "movePlayer", ret |-> r.ret,
                           dx |-> d[1], dy |-> d[2]]
        /\ UNCHANGED maze

NextEvents == AddEventListener \/ RestartStart \/ EventMove \/ RestartGameOver

SpecEvents == InitEvents /\ [][NextEvents]_vars

(***************************************************************************)
(* A view system constructed on its own over a generated maze, updated,    *)
(* set, exported and imported.  The game record holds it with the maze it  *)
(* looks at.                                                               *)
(***************************************************************************)
PersistMazes == { m \in ViewMazes : Len(m.path) = 9 }

\* The ranges given to the constructor and found in imported data.
PersistRanges == {0, 2, 6}

DataFields == {"mode", "viewRange", "exploredCells", "permanentCells"}

\* The data importData is called with: what exportData gives, the same
\* with fields left out, or with another range or the other mode.
PersistData(v) ==
    LET data == exportData(v)
    IN  {data}
        \cup { [f \in DataFields \ {g} |-> data[f]] : g \in DataFields }
        \cup { [f \in {} |-> data[f]] }
        \cup { [data EXCEPT !.viewRange = r] : r \in PersistRanges }
        \cup { [data EXCEPT !.mode = mode] : mode \in Modes }

InitPersist ==
    /\ maze = NoMaze
    /\ \E m \in PersistMazes, mode \in Modes, range \in PersistRanges :
           game = [maze |-> m,
                   viewSystem |-> ViewSystem([mode |-> mode, viewRange |-> range]),
                   emitted |-> <<>>, delivered |-> <<>>]
    /\ call = [op |-> "ViewSystem", n |-> 0]

\* importData returns nothing: the call's value is undefined.
ViewImportData ==
    /\ call.n < MaxViewCalls
    /\ \E data \in PersistData(game.viewSystem) :
           /\ game' = [game EXCEPT !.viewSystem = importData(@, data)]
           /\ call' = [op |-> "importData", n |-> call.n + 1,
                       data |-> data, ret |-> "undefined"]
    /\ UNCHANGED maze

\* `loaded = new ViewSystem(); loaded.importData(viewSystem.exportData())`,
\* and loaded takes the place of viewSystem.
ViewReload ==
    /\ call.n < MaxViewCalls
    /\ game' = [game EXCEPT !.viewSystem =
                   importData(ViewSystem([mode |-> "permanent", viewRange |-> 0]),
                              exportData(@))]
    /\ call' = [op |-> "reload", n |-> call.n + 1]
    /\ UNCHANGED maze

NextPersist ==
    \/ ViewUpdate \/ ViewSetMode \/ ViewSetViewRange
    \/ ViewImportData \/ ViewReload

SpecPersist == InitPersist /\ [][NextPersist]_vars

(***************************************************************************)
(* Properties of a generated maze (SpecMaze).                              *)
(***************************************************************************)
Generated == call.op \in {"generate", "generateFixedLevel"}

step(c, d) == <<c[1] + d[1], c[2] + d[2]>>

\* The cells reached from the cells of S by unit steps that canMove allows.
RECURSIVE reachableFrom(_, _)
reachableFrom(m, S) ==
    LET T == S \cup { c \in GridCells(m) :
                        \E s \in S, d \in UnitDirections :
                            c = step(s, d) /\ canMove(m, s[1], s[2], d[1], d[2]) }
    IN  IF T = S THEN S ELSE reachableFrom(m, T)

\* C5: after generate() every cell of the grid is reachable from start by
\* orthogonal unit steps each allowed by canMove.
C5_EveryCellReachable ==
    Generated => reachableFrom(maze, {maze.start}) = GridCells(maze)

C5_Witness ==
    /\ call.op = "generate"
    /\ maze.width = 3 /\ maze.height = 3
    /\ Len(maze.path) >= 5

\* The number of steps of a shortest walk from the cells of `frontier`, which
\* are n steps from start, to target; -1 when there is none.
RECURSIVE stepsTo(_, _, _, _, _)
stepsTo(m, frontier, seen, target, n) ==
    IF target \in frontier THEN n
    ELSE LET next == { c \in GridCells(m) \ seen :
                         \E s \in frontier, d \in UnitDirections :
                             c = step(s, d) /\ canMove(m, s[1], s[2], d[1], d[2]) }
         IN  IF next = {} THEN -1
             ELSE stepsTo(m, next, seen \cup next, target, n + 1)

shortestDistance(m) == stepsTo(m, {m.start}, {m.start}, m.end, 0)

\* C6: the path of a generated maze starts at start, ends at end, makes only
\* orthogonal unit steps that canMove allows, and has as many steps as a
\* shortest walk from start to end found by a search of its own.
C6_PathIsShortest ==
    Generated =>
        LET path == maze.path
        IN  /\ Len(path) >= 1
            /\ path[1] = maze.start
            /\ path[Len(path)] = maze.end
            /\ \A i \in 1 .. Len(path) - 1 :
                   \E d \in UnitDirections :
                       /\ path[i + 1] = step(path[i], d)
                       /\ canMove(maze, path[i][1], path[i][2], d[1], d[2])
            /\ Len(path) - 1 = shortestDistance(maze)

C6_Witness ==
    /\ call.op = "generate"
    /\ maze.width = 3 /\ maze.height = 3
    /\ Len(maze.path) = 9

sameLayout(a, b) ==
    a.walls = b.walls /\ a.start = b.start /\ a.end = b.end /\ a.path = b.path

\* C8: generateFixedLevel(level) gives one result, the same over whatever
\* the maze holds as on a maze just constructed with the same width and
\* height: walls, start, end and path are equal.
C8_FixedLevelDeterministic ==
    /\ \A level \in 1 .. MaxLevel :
           LET here == generateFixedLevel(maze, level)
               fresh == generateFixedLevel(Maze(maze.width, maze.height), level)
           IN  /\ Cardinality(here) = 1
               /\ \A a \in here, b \in fresh : sameLayout(a, b)
    /\ call.op = "generateFixedLevel" =>
           \A b \in generateFixedLevel(Maze(maze.width, maze.height), call.level) :
               sameLayout(maze, b)

C8_Witness ==
    /\ call.op = "generateFixedLevel"
    /\ call.previous = "generate"
    /\ maze.width = 3 /\ maze.height = 3

\* C10: for adjacent in-grid cells a and b of a generated maze, canMove from
\* a towards b equals canMove from b towards a, and both are the negation of
\* the wall entry of the edge between them.
C10_CanMoveSymmetric ==
    Generated =>
        \A c \in GridCells(maze) :
            LET x == c[1]
                y == c[2]
            IN  /\ x + 1 < maze.width =>
                       /\ canMoveCall(maze, x, y, 1, 0)
                              = [threw |-> FALSE, value |-> ~maze.walls.vertical[y][x + 1]]
                       /\ canMoveCall(maze, x + 1, y, -1, 0)
                              = [threw |-> FALSE, value |-> ~maze.walls.vertical[y][x + 1]]
                /\ y + 1 < maze.height =>
                       /\ canMoveCall(maze, x, y, 0, 1)
                              = [threw |-> FALSE, value |-> ~maze.walls.horizontal[y + 1][x]]
                       /\ canMoveCall(maze, x, y + 1, 0, -1)
                              = [threw |-> FALSE, value |-> ~maze.walls.horizontal[y + 1][x]]

C10_Witness ==
    /\ call.op = "generate"
    /\ maze.width = 3 /\ maze.height = 3
    /\ \E c \in GridCells(maze) :
           c[1] + 1 < maze.width /\ maze.walls.vertical[c[2]][c[1] + 1]
    /\ \E c \in GridCells(maze) :
           c[1] + 1 < maze.width /\ ~maze.walls.vertical[c[2]][c[1] + 1]
    /\ \E c \in GridCells(maze) :
           c[2] + 1 < maze.height /\ maze.walls.horizontal[c[2] + 1][c[1]]

(***************************************************************************)
(* canMove around the grid (SpecCanMove).                                  *)
(***************************************************************************)
\* C9: canMove with a unit direction returns false, and does not throw,
\* whenever the cell or the cell it moves to lies outside the grid.
C9_CanMoveFailsClosed ==
    (/\ call.op = "canMove"
     /\ \/ ~inGrid(maze, call.x, call.y)
        \/ ~inGrid(maze, call.x + call.dx, call.y + call.dy))
        => call.outcome = [threw |-> FALSE, value |-> FALSE]

(***************************************************************************)
(* Moves of the player (Spec).                                             *)
(***************************************************************************)
\* How many of the events emitted by the last call are `event`.
emittedCount(event) ==
    Cardinality({ i \in 1 .. Len(game.emitted) : game.emitted[i].event = event })

atEnd == game.player.x = game.maze.end[1] /\ game.player.y = game.maze.end[2]

\* C1: a movePlayer call that returns false leaves the player, the state,
\* visitedCells, exploredCells and the view system as they were and emits
\* no event.
C1_RejectedMoveChangesNothing ==
    [][(call'.op = "movePlayer" /\ ~call'.ret)
           => (game' = [game EXCEPT !.emitted = <<>>])]_vars

C1_Witness ==
    /\ call.op = "movePlayer" /\ ~call.ret
    /\ game.state.isRunning /\ ~game.state.isPaused /\ ~game.state.isGameOver
    /\ game.state.moves > 0

\* C2: movePlayer is rejected for every (dx, dy) that is not one of the four
\* unit directions, so an accepted move takes the player to an orthogonally
\* adjacent cell with no wall between the two cells.
C2_OnlyUnitMoves ==
    /\ \A dx \in MoveDeltas, dy \in MoveDeltas, now \in Times :
           <<dx, dy>> \notin UnitDirections => ~movePlayer(Called, dx, dy, now).ret
    /\ (call.op = "movePlayer" /\ call.ret) =>
           \E d \in UnitDirections :
               /\ game.player.x = game.player.prevX + d[1]
               /\ game.player.y = game.player.prevY + d[2]
               /\ canMove(game.maze, game.player.prevX, game.player.prevY, d[1], d[2])

\* C3: an accepted move onto the end emits exactly one onVictory event and
\* leaves the game over, won and not running, with endTime recorded; an
\* accepted move to another cell emits no onVictory event and leaves the
\* game running.
C3_VictoryOnReachingEnd ==
    (call.op = "movePlayer" /\ call.ret) =>
        IF atEnd
        THEN /\ emittedCount("onVictory") = 1
             /\ game.state.isGameOver /\ game.state.isVictory
             /\ ~game.state.isRunning
             /\ game.state.endTime \in Times
        ELSE /\ emittedCount("onVictory") = 0
             /\ game.state.isRunning
             /\ ~game.state.isGameOver /\ ~game.state.isVictory

C3_Witness ==
    /\ call.op = "movePlayer" /\ call.ret
    /\ atEnd /\ game.state.isVictory
    /\ game.state.moves >= 2

\* The events of the last call, by name.
emittedNames == [i \in 1 .. Len(game.emitted) |-> game.emitted[i].event]

C7_WalkingThePathWins ==
    call.op = "movePlayer" =>
        /\ call.ret
        /\ call.step < Len(game.maze.path) - 1 =>
               /\ game.state.isRunning
               /\ ~game.state.isGameOver /\ ~game.state.isVictory
               /\ emittedCount("onVictory") = 0
        /\ call.step = Len(game.maze.path) - 1 =>
               /\ game.state.isVictory /\ game.state.isGameOver
               /\ emittedCount("onVictory") = 1
               /\ game.state.moves = Len(game.maze.path) - 1

C7_Witness ==
    /\ call.op = "movePlayer"
    /\ game.config.mazeSize = 3
    /\ Len(game.maze.path) >= 5
    /\ call.step = Len(game.maze.path) - 1
    /\ game.state.isVictory

(***************************************************************************)
(* The view system (SpecView).                                             *)
(***************************************************************************)
view == game.viewSystem

\* The cells of the grid within Chebyshev distance range of (x, y).
withinRange(c, x, y, range) == abs(c[1] - x) <= range /\ abs(c[2] - y) <= range

\* The window of a viewer at (x, y): the in-grid cells within viewRange that
\* the viewer has a line of sight to.
windowOf(v, m, x, y) ==
    { c \in GridCells(m) :
        /\ withinRange(c, x, y, v.viewRange)
        /\ hasLineOfSight(x, y, c[1], c[2], m) }

\* C11: calculateVisibleArea(vx, vy, maze) returns exactly the in-grid cells
\* within viewRange of the viewer that hasLineOfSight accepts; the viewer's
\* own cell is among them, and no cell outside the grid or the square is.
C11_VisibleAreaIsWindow ==
    \A c \in GridCells(game.maze) :
        LET cells == calculateVisibleArea(view, c[1], c[2], game.maze).cells
        IN  /\ cells = windowOf(view, game.maze, c[1], c[2])
            /\ getCellKey(c[1], c[2]) \in cells
            /\ \A k \in cells :
                   /\ inGrid(game.maze, k[1], k[2])
                   /\ withinRange(k, c[1], c[2], view.viewRange)

C11_Witness ==
    /\ call.op = "update"
    /\ view.viewRange = 2
    /\ <<call.x, call.y, 2>> \in DOMAIN view.cache
    /\ \E k \in view.cache[<<call.x, call.y, 2>>] :
           ~withinRange(k, call.x, call.y, 1)
    /\ \E c \in GridCells(game.maze) :
           /\ withinRange(c, call.x, call.y, 2)
           /\ c \notin view.cache[<<call.x, call.y, 2>>]

\* C12 as claimed: after any update(vx, vy, maze), in either mode,
\* isCellVisible holds only of cells within viewRange of (vx, vy) that the
\* viewer has a line of sight to.
C12_VisibleOnlyInWindow ==
    call.op = "update" =>
        \A k \in view.visibleCells :
            /\ withinRange(k, call.x, call.y, view.viewRange)
            /\ hasLineOfSight(call.x, call.y, k[1], k[2], game.maze)

\* C12 as amended: after any update(vx, vy, maze), isCellVisible holds only
\* of cells of the viewer's window and, in permanent mode, of cells that
\* were in permanentCells before the call.
C12_VisibleInWindowOrHistory ==
    [][call'.op = "update" =>
          \A k \in view'.visibleCells :
              \/ k \in windowOf(view', game'.maze, call'.x, call'.y)
              \/ view'.mode = "permanent" /\ k \in view.permanentCells]_vars

C12_Witness ==
    /\ call.op = "update"
    /\ view.mode = "permanent"
    /\ \E c \in GridCells(game.maze) :
           /\ isCellVisible(view, c[1], c[2])
           /\ ~withinRange(c, call.x, call.y, view.viewRange)
    /\ \E c \in GridCells(game.maze) : ~isCellVisible(view, c[1], c[2])

\* C13: after every update() made in permanent mode, the returned set,
\* visibleCells and permanentCells all equal permanentCells before the call
\* joined with the viewer's window, and the window has been added to
\* exploredCells; no cell of permanentCells is dropped from the returned set.
C13_PermanentKeepsHistory ==
    [][(call'.op = "update" /\ view.mode = "permanent") =>
          LET window == windowOf(view', game'.maze, call'.x, call'.y)
          IN  /\ call'.returned = view.permanentCells \cup window
              /\ view'.visibleCells = view.permanentCells \cup window
              /\ view'.permanentCells = view.permanentCells \cup window
              /\ view'.exploredCells = view.exploredCells \cup window
              /\ view.permanentCells \subseteq call'.returned]_vars

C13_Witness ==
    /\ call.op = "update"
    /\ view.mode = "permanent"
    /\ call.n >= 2
    /\ call.returned # windowOf(view, game.maze, call.x, call.y)
    /\ call.returned # GridCells(game.maze)

\* C14: after every update() made in instant mode, the returned set,
\* visibleCells and exploredCells all equal the viewer's window, whatever
\* permanentCells and exploredCells held, so that a cell explored before the
\* call and outside the new window is not explored after it.
C14_InstantIsWindowOnly ==
    [][(call'.op = "update" /\ view.mode = "instant") =>
          LET window == windowOf(view', game'.maze, call'.x, call'.y)
          IN  /\ call'.returned = window
              /\ view'.visibleCells = window
              /\ view'.exploredCells = window
              /\ \A k \in view.exploredCells \ window :
                     ~isCellExplored(view', k[1], k[2])]_vars

C14_Witness ==
    /\ call.op = "update"
    /\ view.mode = "instant"
    /\ \E k \in view.permanentCells : ~isCellExplored(view, k[1], k[2])
    /\ view.exploredCells # {}

\* C15: in permanent mode a cell that is explored stays explored after every
\* later update() on the same instance, made directly or by a move or a
\* change of view mode of the game, at any viewer position.
C15_PermanentExploredIsStable ==
    [][(view.mode = "permanent" /\ view'.mode = "permanent"
            /\ call'.op \in {"update", "movePlayer", "setViewMode"})
          => \A c \in GridCells(game.maze) :
                 isCellExplored(view, c[1], c[2]) => isCellExplored(view', c[1], c[2])]_vars

C15_Witness ==
    /\ call.op = "movePlayer" /\ call.ret
    /\ view.mode = "permanent"
    /\ \E c \in GridCells(game.maze) :
           /\ isCellExplored(view, c[1], c[2])
           /\ c \notin windowOf(view, game.maze, game.player.x, game.player.y)

\* C16: caching is transparent: after any sequence of moves, setViewMode,
\* restart, update, setMode and setViewRange calls, calculateVisibleArea
\* returns for every viewer what it returns with an empty cache on the
\* current maze and viewRange, and every cache entry is the window of its
\* key (the merge of permanentCells in update() has changed none).
C16_CacheIsTransparent ==
    /\ \A c \in GridCells(game.maze) :
           calculateVisibleArea(view, c[1], c[2], game.maze).cells
               = calculateVisibleArea([view EXCEPT !.cache = <<>>],
                                      c[1], c[2], game.maze).cells
    /\ \A key \in DOMAIN view.cache :
           view.cache[key]
               = windowOf([view EXCEPT !.viewRange = key[3]], game.maze, key[1], key[2])

C16_Witness ==
    /\ call.op = "update"
    /\ call.n >= 2
    /\ view.mode = "permanent"
    /\ Cardinality(DOMAIN view.cache) >= 2
    /\ \E key \in DOMAIN view.cache : view.cache[key] # view.visibleCells

\* C17: setMode(mode) with a valid mode empties the cache, sets mode and
\* leaves visibleCells, exploredCells, permanentCells and viewRange as they
\* were; with an invalid mode it changes nothing, the cache included.
C17_SetModeFrame ==
    [][call'.op = "setMode" =>
          IF call'.mode \in {"permanent", "instant"}
          THEN /\ view'.mode = call'.mode
               /\ DOMAIN view'.cache = {}
               /\ view'.visibleCells = view.visibleCells
               /\ view'.exploredCells = view.exploredCells
               /\ view'.permanentCells = view.permanentCells
               /\ view'.viewRange = view.viewRange
          ELSE view' = view]_vars

C17_Witness ==
    /\ call.op = "setMode" /\ call.mode = "instant"
    /\ view.mode = "instant"
    /\ DOMAIN view.cache = {}
    /\ view.permanentCells # {} /\ view.visibleCells # {}

(***************************************************************************)
(* The states of the game: NotStarted, Running, Paused, Over (Spec).       *)
(***************************************************************************)
emittedCountIn(g, event) ==
    Cardinality({ i \in 1 .. Len(g.emitted) : g.emitted[i].event = event })

\* C18: start() takes the game to Running only from NotStarted: while
\* Running it changes no field and emits no event, and in an Over state it
\* does not bring the game back to Running.
C18_StartOnlyFromNotStarted ==
    [][call'.op = "start" =>
          /\ game.state.isRunning => game' = Called
          /\ game.state.isGameOver => ~game'.state.isRunning
          /\ (~game.state.isRunning /\ ~game.state.isGameOver) =>
                 /\ game'.state.isRunning
                 /\ game'.state.startTime \in Times]_vars

\* C19: an Over outcome is final: gameOver() acts only on a running game,
\* and once victory is reached no later gameOver(), start(), togglePause()
\* or movePlayer() changes isVictory, isGameOver, endTime or moves, or emits
\* an onGameOver or another onVictory event.
C19_OverIsFinal ==
    [][/\ (call'.op = "gameOver" /\ ~game.state.isRunning) =>
              game'.state = game.state
       /\ (/\ game.state.isVictory /\ game.state.isGameOver
           /\ call'.op \in {"gameOver", "start", "togglePause", "movePlayer"}) =>
              /\ game'.state.isVictory = game.state.isVictory
              /\ game'.state.isGameOver = game.state.isGameOver
              /\ game'.state.endTime = game.state.endTime
              /\ game'.state.moves = game.state.moves
              /\ emittedCountIn(game', "onGameOver") = 0
              /\ emittedCountIn(game', "onVictory") = 0]_vars

\* C20: togglePause() flips isPaused and nothing else when the game is
\* running and not over, and changes nothing otherwise; while isPaused
\* every movePlayer call is rejected; a second togglePause in the Running
\* state restores the state before the first.
C20_TogglePauseFlips ==
    [][/\ call'.op = "togglePause" =>
              IF game.state.isRunning /\ ~game.state.isGameOver
              THEN /\ game' = [Called EXCEPT !.state.isPaused = ~game.state.isPaused]
                   /\ togglePause(game') = Called
              ELSE game' = Called
       /\ (call'.op = "movePlayer" /\ game.state.isPaused) =>
              ~call'.ret /\ game' = Called]_vars

C20_Witness ==
    /\ call.op = "movePlayer" /\ ~call.ret
    /\ game.state.isRunning /\ game.state.isPaused
    /\ game.state.moves >= 1

(***************************************************************************)
(* Properties of a game that is restarted, saved and loaded (SpecRestart,  *)
(* SpecSave).                                                              *)
(***************************************************************************)
\* C21: after restart() in any state the game is Running, not paused, not
\* over, not won, with zero moves, the player on the new maze's start,
\* visitedCells = {start}, the explored and visible sets exactly the cells
\* visible from the new start, the view mode the one configured before the
\* call, and exactly one onGameStart event emitted.
C21_RestartGivesFreshRunningGame ==
    [][call'.op = "restart" =>
          LET m == game'.maze
              w == windowOf(game'.viewSystem, m, m.start[1], m.start[2])
          IN  /\ game'.state.isRunning /\ ~game'.state.isPaused
              /\ ~game'.state.isGameOver /\ ~game'.state.isVictory
              /\ game'.state.moves = 0
              /\ <<game'.player.x, game'.player.y>> = m.start
              /\ game'.visitedCells = {getCellKey(m.start[1], m.start[2])}
              /\ game'.exploredCells = w
              /\ game'.viewSystem.exploredCells = w
              /\ game'.viewSystem.visibleCells = w
              /\ game'.config.viewMode = game.config.viewMode
              /\ game'.viewSystem.mode = game.config.viewMode
              /\ emittedCountIn(game', "onGameStart") = 1]_vars

\* A restart of a paused game in instant mode whose new start does not see
\* the whole grid.
C21_Witness ==
    /\ call.op = "restart" /\ call.from = "Paused"
    /\ game.config.viewMode = "instant"
    /\ game.state.isRunning /\ game.state.moves = 0
    /\ game.exploredCells # GridCells(game.maze)

\* The onCellExplored events of a call, in order.
exploredEvents(g) ==
    SelectSeq(g.emitted, LAMBDA e : e.event = "onCellExplored")

\* The events of a call that found the cells of base explored: one event
\* for each cell the call added, none for a cell of base, the totals
\* counting on from base one by one up to totalCells at most.
announcedOnce(base, g) ==
    LET ev == exploredEvents(g)
        keyOf(i) == getCellKey(ev[i].data.x, ev[i].data.y)
    IN  /\ \A i \in 1 .. Len(ev) :
               /\ keyOf(i) \notin base
               /\ \A j \in 1 .. Len(ev) : keyOf(i) = keyOf(j) => i = j
               /\ ev[i].data.totalExplored = Cardinality(base) + i
               /\ ev[i].data.totalExplored <= ev[i].data.totalCells
               /\ ev[i].data.totalCells = g.maze.width * g.maze.height
        /\ g.exploredCells = base \cup { keyOf(i) : i \in 1 .. Len(ev) }

\* C23: between two initialisations, in both view modes, onCellExplored is
\* emitted at most once per cell; each event's totalExplored is the number
\* of distinct cells explored so far, that cell included, so consecutive
\* totals increase by exactly 1 and never exceed totalCells.  An
\* initialisation starts from the start cell alone, every other call from
\* the cells explored before it.
C23_CellExploredOncePerCell ==
    /\ [](call.op = "Game" =>
             announcedOnce({getCellKey(game.maze.start[1], game.maze.start[2])},
                           game))
    /\ [][announcedOnce(
              IF call'.op = "restart"
              THEN {getCellKey(game'.maze.start[1], game'.maze.start[2])}
              ELSE game.exploredCells,
              game')]_vars

\* A move in instant mode that brings back into view a cell that was out of
\* view from the previous position and announces other cells, but not that
\* one: it was explored earlier in the walk.
C23_Witness ==
    /\ call.op = "movePlayer" /\ call.ret
    /\ game.config.viewMode = "instant"
    /\ Len(exploredEvents(game)) >= 1
    /\ \E c \in game.viewSystem.visibleCells :
           /\ c \notin windowOf(game.viewSystem, game.maze,
                                game.player.prevX, game.player.prevY)
           /\ \A i \in 1 .. Len(exploredEvents(game)) :
                  c # getCellKey(exploredEvents(game)[i].data.x,
                                 exploredEvents(game)[i].data.y)

\* C30: the start and the end of a generated maze are inside the grid and
\* distinct, so a game that was just initialised or restarted has the
\* player on the start and not on the end.
C30_StartAndEndDistinct ==
    /\ inGrid(game.maze, game.maze.start[1], game.maze.start[2])
    /\ inGrid(game.maze, game.maze.end[1], game.maze.end[2])
    /\ game.maze.start # game.maze.end
    /\ call.op \in {"Game", "restart"} =>
           /\ <<game.player.x, game.player.y>> = game.maze.start
           /\ ~atEnd

\* A game restarted after it was over, on a maze whose end is next to its
\* start.
C30_Witness ==
    /\ call.op = "restart" /\ call.from = "Over"
    /\ \E d \in UnitDirections : step(game.maze.start, d) = game.maze.end
    /\ ~game.state.isVictory

\* C25: importGameState(exportGameState()) yields a game with the same wall
\* arrays, start and end, the player on the exported position, and the
\* exported move count, explored cells and visited cells.
C25_LoadRestoresSavedGame ==
    [][call'.op = "importGameState" =>
          /\ game'.maze.walls = game.maze.walls
          /\ game'.maze.start = game.maze.start
          /\ game'.maze.end = game.maze.end
          /\ game'.player.x = game.player.x /\ game'.player.y = game.player.y
          /\ game'.state.moves = game.state.moves
          /\ game'.exploredCells = game.exploredCells
          /\ game'.visitedCells = game.visitedCells]_vars

(***************************************************************************)
(* The boundary of a maze (SpecMaze).                                      *)
(***************************************************************************)
\* C29: in every Maze state, after construction and after generate() or
\* generateFixedLevel(), all boundary edges are walls.  No step of a
\* generation sets a wall entry after init, it only clears entries, so a
\* boundary that is whole at the end was whole at every step.
C29_BoundaryWallsStay ==
    /\ \A x \in 0 .. maze.width - 1 :
           maze.walls.horizontal[0][x] /\ maze.walls.horizontal[maze.height][x]
    /\ \A y \in 0 .. maze.height - 1 :
           maze.walls.vertical[y][0] /\ maze.walls.vertical[y][maze.width]

\* A generated 2 by 3 maze whose carving went along each of the four sides.
C29_Witness ==
    /\ Generated
    /\ maze.width = 2 /\ maze.height = 3
    /\ ~maze.walls.vertical[0][1] /\ ~maze.walls.vertical[maze.height - 1][1]
    /\ \E y \in 1 .. maze.height - 1 : ~maze.walls.horizontal[y][0]
    /\ \E y \in 1 .. maze.height - 1 : ~maze.walls.horizontal[y][maze.width - 1]

(***************************************************************************)
(* The configuration of a game (Spec).                                     *)
(***************************************************************************)
\* C27: an out-of-range maze size and an unrecognised view mode are
\* rejected at every entry point, so in every reachable state of a game
\* config.mazeSize is in 5..30 and config.viewMode equals viewSystem.mode
\* and is permanent or instant.
C27_ConfigAlwaysValid ==
    /\ game.config.mazeSize \in MinMazeSize .. MaxMazeSize
    /\ game.config.viewMode = game.viewSystem.mode
    /\ game.config.viewMode \in Modes

(***************************************************************************)
(* Exporting and importing a view system (SpecPersist).                    *)
(***************************************************************************)
\* C24: importData(exportData()) on a freshly constructed ViewSystem gives a
\* view system whose isCellVisible and isCellExplored agree with the
\* exporter's for every cell, and whose mode and viewRange are the
\* exporter's.
C24_ReloadedViewAgrees ==
    [][call'.op = "reload" =>
          /\ \A c \in GridCells(game.maze) :
                 /\ isCellVisible(game'.viewSystem, c[1], c[2])
                        = isCellVisible(game.viewSystem, c[1], c[2])
                 /\ isCellExplored(game'.viewSystem, c[1], c[2])
                        = isCellExplored(game.viewSystem, c[1], c[2])
          /\ game'.viewSystem.mode = game.viewSystem.mode
          /\ game'.viewSystem.viewRange = game.viewSystem.viewRange]_vars

\* C26: importData(data) with data lacking one of mode, viewRange,
\* exploredCells and permanentCells reports a failure and leaves mode,
\* viewRange, visibleCells, exploredCells and permanentCells unchanged.
C26_IncompleteDataRejected ==
    [][(call'.op = "importData" /\ DOMAIN call'.data # DataFields) =>
          /\ call'.ret # "undefined"
          /\ game'.viewSystem.mode = game.viewSystem.mode
          /\ game'.viewSystem.viewRange = game.viewSystem.viewRange
          /\ game'.viewSystem.visibleCells = game.viewSystem.visibleCells
          /\ game'.viewSystem.exploredCells = game.viewSystem.exploredCells
          /\ game'.viewSystem.permanentCells = game.viewSystem.permanentCells]_vars

\* C28: viewRange is in 1..5 in every reachable state of a view system:
\* after construction with any options.viewRange, after setViewRange(r) and
\* after importData with any viewRange.
C28_ViewRangeClamped ==
    game.viewSystem.viewRange \in MinViewRange .. MaxViewRange

(***************************************************************************)
(* Listeners that throw (SpecEvents).                                      *)
(***************************************************************************)
\* The calls that the events of `emitted` make when every callback of
\* eventListeners is called once for each event it is registered for, in
\* registration order, whether or not an earlier one threw.
RECURSIVE deliveriesOf(_, _, _)
deliveriesOf(emitted, eventListeners, k) ==
    IF k > Len(emitted) THEN <<>>
    ELSE LET event == emitted[k].event
             listeners == eventListeners[event]
         IN  [i \in 1 .. Len(listeners) |->
                 [event |-> event, id |-> listeners[i].id,
                  outcome |-> IF listeners[i].throws THEN "caught" ELSE "returned"]]
             \o deliveriesOf(emitted, eventListeners, k + 1)

\* The game g with every callback one that returns.
calm(g) ==
    LET listeners == g.eventListeners
        delivered == g.delivered
    IN  [g EXCEPT
           !.eventListeners =
               [e \in DOMAIN listeners |->
                   [i \in 1 .. Len(listeners[e]) |->
                       [id |-> listeners[e][i].id, throws |-> FALSE]]],
           !.delivered =
               [i \in 1 .. Len(delivered) |->
                   [event |-> delivered[i].event, id |-> delivered[i].id,
                    outcome |-> "returned"]]]

\* C22: if a handler throws, every handler registered after it for the same
\* event is still invoked exactly once, in registration order; the error
\* does not leave the emitting operation (start, movePlayer with its
\* victory, gameOver); and the game after the operation is the one it would
\* be had no handler thrown.
C22_ThrowingHandlerIsContained ==
    [][call'.op \in {"start", "movePlayer", "gameOver"} =>
          LET expected ==
                  CASE call'.op = "start" -> start(calm(Called), RestartTime)
                    [] call'.op = "gameOver" -> gameOver(calm(Called), RestartTime)
                    [] OTHER -> movePlayer(calm(Called), call'.dx, call'.dy,
                                           RestartTime).g
          IN  /\ game'.delivered
                     = deliveriesOf(game'.emitted, game.eventListeners, 1)
              /\ game'.eventListeners = game.eventListeners
              /\ calm(game') = expected]_vars

\* A winning move heard by two onVictory handlers, the first of which
\* threw and the second of which was then called.
C22_Witness ==
    /\ call.op = "movePlayer" /\ call.ret /\ atEnd
    /\ Len(game.eventListeners["onVictory"]) = 2
    /\ game.eventListeners["onVictory"][1].throws
    /\ \E i \in 1 .. Len(game.delivered) - 1 :
           /\ game.delivered[i] =
                  [event |-> "onVictory", id |-> 1, outcome |-> "caught"]
           /\ game.delivered[i + 1] =
                  [event |-> "onVictory", id |-> 2, outcome |-> "returned"]

(***************************************************************************)
(* The carved maze as a graph (SpecMaze).                                  *)
(***************************************************************************)
\* The open interior edges of m: each as the pair of the cell on its left
\* or upper side and the direction it leaves that cell in.
openEdges(m) ==
    { e \in GridCells(m) \X { <<1, 0>>, <<0, 1>> } :
        /\ step(e[1], e[2]) \in GridCells(m)
        /\ canMove(m, e[1][1], e[1][2], e[2][1], e[2][2]) }

\* The number of simple paths from c to the end of m that avoid the cells
\* of seen, taking the directions from the i-th on.
RECURSIVE simplePaths(_, _, _, _)
simplePaths(m, c, seen, i) ==
    IF c = m.end THEN (IF i = 1 THEN 1 ELSE 0)
    ELSE IF i > 4 THEN 0
    ELSE LET d == <<directions[i].dx, directions[i].dy>>
             n == step(c, d)
         IN  (IF n \in GridCells(m) \ seen /\ canMove(m, c[1], c[2], d[1], d[2])
              THEN simplePaths(m, n, seen \cup {n}, 1) ELSE 0)
             + simplePaths(m, c, seen, i + 1)

\* C31: after generate() on a width by height grid the open edges form a
\* spanning tree: exactly width * height - 1 interior edges are open and
\* they connect every cell, so there is no cycle; between any two cells
\* there is exactly one simple path, and the solution path is the one
\* simple path from start to end.
C31_OpenEdgesFormSpanningTree ==
    Generated =>
        /\ Cardinality(openEdges(maze)) = maze.width * maze.height - 1
        /\ reachableFrom(maze, {maze.start}) = GridCells(maze)
        /\ \A a \in GridCells(maze), b \in GridCells(maze) :
               simplePaths([maze EXCEPT !.end = b], a, {a}, 1) = 1
        /\ Len(maze.path) >= 2
        /\ maze.path[1] = maze.start /\ maze.path[Len(maze.path)] = maze.end
        /\ \A i \in 1 .. Len(maze.path) - 1 :
               \E d \in UnitDirections :
                   /\ maze.path[i + 1] = step(maze.path[i], d)
                   /\ canMove(maze, maze.path[i][1], maze.path[i][2], d[1], d[2])
        /\ \A i \in 1 .. Len(maze.path), j \in 1 .. Len(maze.path) :
               maze.path[i] = maze.path[j] => i = j

\* A generated 3 by 3 maze whose tree branches: a cell with three open
\* sides, off the solution path's ends.
C31_Witness ==
    /\ Generated
    /\ maze.width = 3 /\ maze.height = 3
    /\ \E c \in GridCells(maze) \ {maze.start, maze.end} :
           Cardinality({ d \in UnitDirections :
                           /\ step(c, d) \in GridCells(maze)
                           /\ canMove(maze, c[1], c[2], d[1], d[2]) }) = 3

(***************************************************************************)
(* The steps of generate() (SpecCarve, SpecCarveFair).                     *)
(***************************************************************************)
\* C34: in every run of generate() the search of ensurePathExists reaches
\* end and returns without carving: the walls and cells after it are those
\* the carving loop left, and the solution path is never empty.
C34_EnsurePathExistsCarvesNothing ==
    /\ [][call'.op = "ensurePathExists" =>
             /\ maze' = maze
             /\ reachableFrom(maze, {maze.start}) = GridCells(maze)]_vars
    /\ [](call.op = "generate" =>
             /\ Len(maze.path) >= 2
             /\ maze.path[Len(maze.path)] = maze.end)

\* ensurePathExists has returned on a 3 by 3 maze whose end is not in line
\* with its start and whose wall on the first leg of the direct path
\* stands: the path createPathToEnd would carve is walled.
C34_Witness ==
    /\ call.op = "ensurePathExists"
    /\ maze.width = 3 /\ maze.height = 3
    /\ maze.start[1] < maze.end[1] /\ maze.start[2] # maze.end[2]
    /\ maze.walls.vertical[maze.start[2]][maze.start[1] + 1]

\* C35: generate() terminates on every grid with at least two cells: the
\* draws of end come to one that differs from start, and the carving loop
\* ends with an empty stack after every cell was marked visited, pushed
\* exactly once and popped exactly once; no cell is pushed or popped twice
\* on the way.
C35_GenerateTerminates ==
    /\ [](call.op = "carve" =>
             /\ \A c \in GridCells(maze) :
                    /\ call.pushes[c] = (IF maze.cells[c[2]][c[1]] THEN 1 ELSE 0)
                    /\ call.pops[c] = (IF call.pushes[c] = 1
                                          /\ \A i \in 1 .. Len(call.stack) :
                                                 call.stack[i] # c
                                       THEN 1 ELSE 0)
             /\ call.stack = <<>> =>
                    \A c \in GridCells(maze) :
                        /\ maze.cells[c[2]][c[1]]
                        /\ call.pushes[c] = 1 /\ call.pops[c] = 1)
    /\ <>(call.op = "carve" /\ call.stack = <<>>)

\* The carving loop has ended on a 3 by 3 grid after it backtracked to a
\* branch: the maze has a cell with three open sides.
C35_Witness ==
    /\ call.op = "carve" /\ call.stack = <<>>
    /\ maze.width = 3 /\ maze.height = 3
    /\ \A c \in GridCells(maze) : call.pushes[c] = 1 /\ call.pops[c] = 1
    /\ \E c \in GridCells(maze) :
           Cardinality({ d \in UnitDirections :
                           /\ step(c, d) \in GridCells(maze)
                           /\ canMove(maze, c[1], c[2], d[1], d[2]) }) = 3

(***************************************************************************)
(* Line of sight on a generated maze (SpecMaze).                           *)
(***************************************************************************)
\* The two-step route from c by the unit step d1 and then the unit step d2
\* has no wall on either edge.
routeOpen(m, c, d1, d2) ==
    /\ canMove(m, c[1], c[2], d1[1], d1[2])
    /\ canMove(m, c[1] + d1[1], c[2] + d1[2], d2[1], d2[2])

Diagonals == { <<1, 1>>, <<1, -1>>, <<-1, 1>>, <<-1, -1>> }

\* C33: walls block sight as they block movement: hasLineOfSight accepts
\* the diagonal step from (x, y) to (x + sx, y + sy), which is its whole
\* walk between these two cells, only if one of the two orthogonal routes
\* between them, via (x + sx, y) or via (x, y + sy), is free of walls on
\* both edges; no cell is seen through a diagonal step both of whose
\* routes are walled.
C33_DiagonalSightNeedsOpenRoute ==
    Generated =>
        \A c \in GridCells(maze), s \in Diagonals :
            (step(c, s) \in GridCells(maze)
               /\ hasLineOfSight(c[1], c[2], c[1] + s[1], c[2] + s[2], maze))
            => \/ routeOpen(maze, c, <<s[1], 0>>, <<0, s[2]>>)
               \/ routeOpen(maze, c, <<0, s[2]>>, <<s[1], 0>>)

\* C40: line of sight is symmetric on a generated maze: for any two cells
\* a and b of the grid hasLineOfSight(a, b) equals hasLineOfSight(b, a).
C40_LineOfSightSymmetric ==
    Generated =>
        \A a \in GridCells(maze), b \in GridCells(maze) :
            hasLineOfSight(a[1], a[2], b[1], b[2], maze)
                = hasLineOfSight(b[1], b[2], a[1], a[2], maze)

(***************************************************************************)
(* The flags of the game state (SpecRestart, Spec).                        *)
(***************************************************************************)
\* C36: in every reachable state of a game, after any sequence of start,
\* togglePause, movePlayer, victory, gameOver, restart, setMazeSize and
\* setViewMode calls, isGameOver implies not isRunning, isVictory implies
\* isGameOver, and isRunning implies that startTime is set.
C36_FlagsConsistent ==
    /\ game.state.isGameOver => ~game.state.isRunning
    /\ game.state.isVictory => game.state.isGameOver
    /\ game.state.isRunning => game.state.startTime # nullTime

\* A game started again by start() after it was won: it runs with the
\* player on the end.
C36_Witness ==
    /\ call.op = "start"
    /\ game.state.isRunning /\ atEnd
    /\ game.state.endTime # nullTime

\* C37: isPaused is true only while the game is Running: no sequence of
\* start, togglePause, movePlayer, victory, gameOver and restart calls
\* reaches a state with isPaused true and isRunning false, and a game that
\* start() has taken to Running is not paused.
C37_PausedOnlyWhileRunning ==
    /\ game.state.isPaused => game.state.isRunning
    /\ (call.op = "start" /\ game.state.isRunning) => ~game.state.isPaused

(***************************************************************************)
(* The two records of explored cells (SpecWalk).                           *)
(***************************************************************************)
\* C38: in every reachable state and in both view modes the game's
\* isCellExplored(x, y) equals the view system's isCellExplored(x, y) for
\* every cell, so the exploreRate of getStats() and of the victory event
\* equals the view system's getExplorationRate(totalCells).
C38_ExploredRecordsAgree ==
    /\ \A c \in GridCells(game.maze) :
           Game_isCellExplored(game, c[1], c[2])
               = isCellExplored(game.viewSystem, c[1], c[2])
    /\ Game_exploreRate(game)
           = getExplorationRate(game.viewSystem,
                                game.config.mazeSize * game.config.mazeSize)

(***************************************************************************)
(* What every operation of the game leaves true of the player's cell, the  *)
(* visible cells and the visited cells (SpecRestart, SpecWalk).            *)
(***************************************************************************)
\* C39: after every operation of the game (construction, restart, an
\* accepted or a rejected movePlayer, setViewMode) the player's cell is
\* visible, every cell the view system reports visible is in the game's
\* exploredCells, the player's cell and the start cell are in visitedCells,
\* and visitedCells holds at most moves + 1 cells.
C39_PlayerSeenAndVisited ==
    /\ isCellVisible(game.viewSystem, game.player.x, game.player.y)
    /\ game.viewSystem.visibleCells \subseteq game.exploredCells
    /\ getCellKey(game.player.x, game.player.y) \in game.visitedCells
    /\ getCellKey(game.maze.start[1], game.maze.start[2]) \in game.visitedCells
    /\ Cardinality(game.visitedCells) <= game.state.moves + 1

\* The view mode changed after an accepted move: the player stands away
\* from the start with two cells visited in one move.
C39_Witness ==
    /\ call.op = "setViewMode"
    /\ game.state.moves = 1
    /\ getCellKey(game.player.x, game.player.y)
           # getCellKey(game.maze.start[1], game.maze.start[2])
    /\ Cardinality(game.visitedCells) = 2
    /\ game.viewSystem.mode = "instant"

(***************************************************************************)
(* The grid after its generation (SpecGrid).                               *)
(***************************************************************************)
\* C32: the grid is immutable after generation: movePlayer,
\* updateVisibility, setViewMode, togglePause, start, victory, gameOver,
\* showSolution, hideSolution and every operation of the view system leave
\* the maze's walls, width, height, start, end and path as they were; only
\* init, restart and setMazeSize change them.
C32_GridImmutable ==
    [][game'.maze = game.maze]_vars

\* A won game whose solution is then shown: movePlayer with its victory
\* and showSolution have both acted on the maze the game was built with.
C32_Witness ==
    /\ call.op = "showSolution" /\ call.n = MaxGridCalls
    /\ game.state.isVictory
    /\ game.config.showSolution
    /\ Len(game.maze.path) >= 2 /\ game.maze.path[1] = game.maze.start

====
